---- MODULE Spec2Model ----
(***************************************************************************)
(* Session lifecycle manager of Mantra-Pair (src/index.js, the current     *)
(* server that starts at line 481): the in-memory session registry, the    *)
(* startPairing coroutine, the connection.update handler, the two          *)
(* per-session timers, the periodic sweep, cleanupSession and the          *)
(* event-stream subscribe.                                                 *)
(*                                                                         *)
(* Node runs every callback to its next await without preemption, so one   *)
(* action is one run of a callback or of a continuation from one           *)
(* suspension point to the next.  A suspended continuation is an element   *)
(* of the bag `tasks`.  The protocol library is the environment: it        *)
(* delivers connection.update events and settles pending requests.         *)
(***************************************************************************)
EXTENDS Integers, Sequences, FiniteSets, Bags, TLC

(* ---------------------------- bounds ----------------------------------- *)
MaxSessions == 1      \* create requests that are accepted
MaxIds      == 2      \* session ids; SpecPeers alone registers the second
MaxHandles  == 4      \* makeWASocket calls per session
MaxCleanups == 2      \* cleanupSession calls per session
MaxQr       == 1      \* distinct QR payloads the library pushes
MaxSubs     == 2      \* subscribers attached to one session's event stream
MaxTasks    == 2      \* continuations of one session suspended at once

(* ----------------------- program constants ----------------------------- *)
\* MAX_RETRIES = Number(process.env.MAX_RETRIES || 8); deployed with
\* MAX_RETRIES=3 (README, "Tuning").
MAX_RETRIES == 3
\* The delays in seconds (RETRY_DELAY_MS = 4000, RETRY_DELAY_MAX_MS = 30000).
RETRY_DELAY_MS == 4
RETRY_DELAY_MAX_MS == 30

Ids == 1..MaxIds
NoSock == 0           \* s.sock === null

(* DisconnectReason of the protocol library, by name; "undefined" and       *)
(* "null" are an absent status code.                                       *)
TransientReasons ==
    {"connectionClosed", "connectionLost", "timedOut", "restartRequired",
     "unavailableService"}
Reasons ==
    {"undefined", "null", "loggedOut", "forbidden", "badSession"}
        \cup TransientReasons
\* statusCodeFromError: a chain of ?? that ends in undefined, so never null.
CodeReasons == Reasons \ {"null"}

Min(a, b) == IF a < b THEN a ELSE b

(* ------------------------- pure functions ------------------------------ *)
\* The first server of the file (lines 1-479) decides retries with this.
shouldRetry(n, reason) ==
    IF n >= MAX_RETRIES THEN FALSE
    ELSE IF reason = "undefined" \/ reason = "null" THEN TRUE
    ELSE reason \in {"connectionClosed", "connectionLost", "timedOut",
                     "restartRequired"}

\* A plausible slip: the allow-list of the first server, which has no
\* unavailableService.
isRetryableWithout503(reason) ==
    IF reason = "undefined" \/ reason = "null" THEN TRUE
    ELSE reason \in {"connectionClosed", "connectionLost", "timedOut",
                     "restartRequired"}

isRetryableDisconnectReason(reason) ==
    IF reason = "undefined" \/ reason = "null" THEN TRUE
    ELSE reason \in {"connectionClosed", "connectionLost", "timedOut",
                     "restartRequired", "unavailableService"}

\* A plausible slip: <= for <.
RetryDecisionOffByOne(n, reason) ==
    isRetryableDisconnectReason(reason) /\ n <= MAX_RETRIES

\* A plausible slip: the attempt count left out of the condition.
RetryDecisionIgnoresCount(n, reason) ==
    isRetryableDisconnectReason(reason)

\* isRetryableDisconnectReason(reason) && (s.retries || 0) < MAX_RETRIES
RetryDecision(n, reason) ==
    isRetryableDisconnectReason(reason) /\ n < MAX_RETRIES

\* A plausible slip: the counter reported before it is incremented, and so
\* never incremented.
NextRetriesStuck(n) == n

\* s.retries = (s.retries || 0) + 1
NextRetries(n) == n + 1

\* Math.min(RETRY_DELAY_MAX_MS, RETRY_DELAY_MS * s.retries)
Backoff(n) == Min(RETRY_DELAY_MAX_MS, RETRY_DELAY_MS * n)

\* raw?.match(/.{1,4}/g)?.join('-') || raw   (raw is a sequence of chars)
RECURSIVE FormatCode(_)
FormatCode(raw) ==
    IF Len(raw) <= 4 THEN raw
    ELSE SubSeq(raw, 1, 4) \o <<"-">> \o FormatCode(SubSeq(raw, 5, Len(raw)))

RawCodes == { <<"A", "B", "C", "D", "1", "2", "3", "4">> }

\* String(phone || '').replace(/\D/g, ''): the digits of the input, in order.
Digits == {"0", "1", "2", "3", "4", "5", "6", "7", "8", "9"}
RECURSIVE StripNonDigits(_)
StripNonDigits(p) ==
    IF p = <<>> THEN <<>>
    ELSE (IF Head(p) \in Digits THEN <<Head(p)>> ELSE <<>>)
             \o StripNonDigits(Tail(p))

\* A plausible slip: the length of the input tested, not of its digits.
validatePhoneUnstripped(p) ==
    LET cleaned == StripNonDigits(p)
    IN  IF Len(p) < 10 \/ Len(p) > 15
        THEN [ok |-> FALSE, phone |-> <<>>]
        ELSE [ok |-> TRUE, phone |-> cleaned]

\* A plausible slip: the lower bound on the digit count dropped.
validatePhoneNoMin(p) ==
    LET cleaned == StripNonDigits(p)
    IN  IF Len(cleaned) > 15
        THEN [ok |-> FALSE, phone |-> <<>>]
        ELSE [ok |-> TRUE, phone |-> cleaned]

validatePhone(p) ==
    LET cleaned == StripNonDigits(p)
    IN  IF Len(cleaned) < 10 \/ Len(cleaned) > 15
        THEN [ok |-> FALSE, phone |-> <<>>]
        ELSE [ok |-> TRUE, phone |-> cleaned]

\* Request bodies' phone field; <<>> is a missing phone.
PhoneInputs ==
    { <<>>,
      <<"1", "5", "5", "5", "1", "2", "3", "4", "5", "6", "7">>,
      <<"+", "1", "5", "5", "5", "1", "2", "3", "4">>,
      <<"1", "2", "3", "4", "5", "6", "7", "8", "9", "0", "1", "2", "3", "4",
        "5", "6">> }

(* ----------------------------- state ----------------------------------- *)
VARIABLES
    apiKeySet,    \* PAIR_API_KEY is configured
    nextId,       \* ids handed out so far + 1 (randomId never repeats)
    registry,     \* keys of the sessions map
    method,       \* s.method
    phone,        \* s.phone
    sock,         \* s.sock: a handle of the session, or NoSock
    retries,      \* s.retries
    lastQr,       \* s.lastQr
    lastCode,     \* s.lastCode
    ttlArmed,     \* s.timers.ttl is pending
    idleArmed,    \* s.timers.idle is pending
    dir,          \* s.dir exists on disk
    aged,         \* now() - s.createdAt > SESSION_TTL_MS
    handles,      \* per session, the sockets makeWASocket returned
    tasks,        \* suspended continuations
    subs,         \* per session, event-stream subscribers attached
    cleanupRuns,  \* per session, calls of cleanupSession
    fails,        \* per session, the failures handled since the last open
    idleFired,    \* the sessions whose idle timeout has fired
    config,       \* process.env: EXPORT_ENCRYPTED and SESSION_SECRET
    io,           \* a call of a function or of the decrypt script: input, result
    step          \* the last step: what ran, its input, what it emitted

sessVars == <<method, phone, sock, retries, lastQr, lastCode>>
timerVars == <<ttlArmed, idleArmed>>
vars == <<apiKeySet, nextId, registry, method, phone, sock, retries, lastQr,
          lastCode, ttlArmed, idleArmed, dir, aged, handles, tasks, subs,
          cleanupRuns, fails, idleFired, config, io, step>>

\* What the last step let the outside see.  act: the callback or continuation
\* that ran; sids: the sessions it acted on; h: the socket it belongs to; arg:
\* its input; evs: what it emitted on the sessions' emitters, in order; resp:
\* the HTTP status it answered (0: none); out: what it wrote to the
\* subscriber's stream or passed to sock.sendMessage.  A step that emits and
\* answers nothing leaves Quiet.
\* req: what an HTTP request carried (the create request: API key, method,
\* phone; the subscribe: the key query parameter), or the sock.user.id the
\* export read.
NoStep == [act |-> "init", sids |-> {}, h |-> 0, arg |-> "", evs |-> <<>>,
           resp |-> 0, out |-> <<>>, req |-> <<>>]
Step(a, s, h, x, evs) ==
    [act |-> a, sids |-> {s}, h |-> h, arg |-> x, evs |-> evs, resp |-> 0,
     out |-> <<>>, req |-> <<>>]
Http(a, S, x, code, out) ==
    [act |-> a, sids |-> S, h |-> 0, arg |-> x, evs |-> <<>>, resp |-> code,
     out |-> out, req |-> <<>>]
\* The answer to a request that carried r.
Answer(a, S, x, code, out, r) == [Http(a, S, x, code, out) EXCEPT !.req = r]
Quiet == [NoStep EXCEPT !.act = "quiet"]
\* The events the last step emitted on session s's emitter.
Emitted(s) == IF s \in step.sids THEN step.evs ELSE <<>>
EmittedEv(s, e) == \E i \in 1..Len(Emitted(s)) : Emitted(s)[i] = e

Ev(e, v) == [ev |-> e, val |-> v]
Status(v) == Ev("status", <<v>>)
Retrying(k) == Ev("status", <<"retrying", k, MAX_RETRIES>>)
Err(m) == Ev("session_error", <<m>>)

\* sid: the session; pc: the await it is suspended on; h: the socket it
\* captured; arg: the caller of startPairing; qr: the QR payload being rendered;
\* n: the retry it is on (s.retries as its increment left it); ms: the delay
\* it is waiting; jid: the export's selfJid.
Task(s, pc, h, x) ==
    [sid |-> s, pc |-> pc, h |-> h, arg |-> x, qr |-> 0, n |-> 0, ms |-> 0,
     jid |-> <<>>]
ExportTask(s, pc, h, jid) == [Task(s, pc, h, "") EXCEPT !.jid = jid]
QrTask(s, h, q) == [Task(s, "h_qr", h, "") EXCEPT !.qr = q]
RetryTask(s, pc, h, n, ms) == [Task(s, pc, h, "") EXCEPT !.n = n, !.ms = ms]
One(t) == SetToBag({t})
NoTasks == EmptyBag

\* live: opened by makeWASocket and not ended; opened, closed: it has
\* reported open, close.
NewHandle == [live |-> TRUE, opened |-> FALSE, closed |-> FALSE]
\* An ended socket that s.sock has dropped: nothing it reports is handled any
\* more and no request on it resolves, so what it had reported is forgotten.
Retired == [live |-> FALSE, opened |-> FALSE, closed |-> TRUE]
\* sock.end(): the handle stops being live; ending twice changes nothing.
EndHandle(hs, h) ==
    IF h = NoSock THEN hs ELSE [hs EXCEPT ![h].live = FALSE]
Live(s) == {h \in 1..Len(handles[s]) : handles[s][h].live}

\* closes: transient closes the handler took since the last open (or since
\* the create request); codes: pairing-code failures retried since then.
NoFails == [closes |-> 0, codes |-> 0]

\* The process after boot: no session yet.
Boot ==
    /\ nextId = 1
    /\ registry = {}
    /\ method = [s \in Ids |-> "none"]
    /\ phone = [s \in Ids |-> <<>>]
    /\ sock = [s \in Ids |-> NoSock]
    /\ retries = [s \in Ids |-> 0]
    /\ lastQr = [s \in Ids |-> <<>>]
    /\ lastCode = [s \in Ids |-> <<>>]
    /\ ttlArmed = [s \in Ids |-> FALSE]
    /\ idleArmed = [s \in Ids |-> FALSE]
    /\ dir = [s \in Ids |-> FALSE]
    /\ aged = [s \in Ids |-> FALSE]
    /\ handles = [s \in Ids |-> <<>>]
    /\ tasks = NoTasks
    /\ subs = [s \in Ids |-> 0]
    /\ cleanupRuns = [s \in Ids |-> 0]
    /\ fails = [s \in Ids |-> NoFails]
    /\ idleFired = {}
    /\ step = NoStep

\* EXPORT_ENCRYPTED is 'true' or not; SESSION_SECRET is set (non-blank) or not.
Configs == [encrypted : BOOLEAN, secret : BOOLEAN]
\* Neither variable is set.
DefaultConfig == [encrypted |-> FALSE, secret |-> FALSE]
\* No call of a function or of the script under way.
NoCall == [fn |-> "none", in |-> <<>>, out |-> <<>>]

\* A plausible slip: the boot test left out.
BootOkAlways == TRUE

\* if (EXPORT_ENCRYPTED && !SESSION_SECRET) throw ...: the module's top level
\* throws before the routes exist and before app.listen.
BootOk == ~(config.encrypted /\ ~config.secret)

\* PAIR_API_KEY is set in the environment or it is not.
Init == apiKeySet \in BOOLEAN /\ config = DefaultConfig /\ io = NoCall /\ Boot

(* ------------------------- shared pieces ------------------------------- *)
Created(s) == s < nextId
Swap(t, new) == (tasks (-) One(t)) (+) new
TasksOf(s) == {t \in BagToSet(tasks) : t.sid = s}
NTasks(s) == BagCardinality([t \in TasksOf(s) |-> tasks[t]])
\* The model lets an event, a timer or a request start one more continuation
\* of session s only below MaxTasks.
CanSpawn(s) == NTasks(s) < MaxTasks

\* A plausible slip: the registry test after the backoff left out.
SessionExistsAlways(s) == TRUE

\* sessions.has(s.id)
SessionExists(s) == s \in registry

\* cleanupSession(s) up to its first await: both timers are cleared and, if
\* s.sock is set, its end() is called.  hs is handles[s] as the caller left it.
CleanupStart(s, hs) ==
    /\ cleanupRuns[s] < MaxCleanups
    /\ ttlArmed' = [ttlArmed EXCEPT ![s] = FALSE]
    /\ idleArmed' = [idleArmed EXCEPT ![s] = FALSE]
    /\ handles' = [handles EXCEPT ![s] = EndHandle(hs, sock[s])]
    /\ cleanupRuns' = [cleanupRuns EXCEPT ![s] = @ + 1]

\* cleanupSession(s) suspended in its awaits of sock.end() and fs.remove(s.dir).
CleanupTask(s) == Task(s, "cleanup", 0, "")

\* startPairing(s) up to its first await, fs.ensureDir(s.dir); `by` names the
\* caller, whose catch handler words the failure.
StartPairingTask(s, by) == Task(s, "sp_ensureDir", 0, by)
\* startPairing calls that have returned a socket or are on their way to one.
Starts(s) ==
    Len(handles[s])
      + BagCardinality([t \in {u \in TasksOf(s) :
                                  u.pc \in {"sp_ensureDir", "sp_authState"}}
                        |-> tasks[t]])

(* ------------------------- POST /api/pair ------------------------------ *)
ApiKeys == {"none", "global", "wrong"}
Methods == {"missing", "code", "qr", "bad"}

\* A plausible slip: any non-empty x-api-key header accepted.
ApiKeyOkNonEmpty(key) == ~apiKeySet \/ key # "none"

\* requireApiKey
ApiKeyOk(key) == ~apiKeySet \/ key = "global"

\* String(req.body?.method || 'code')
MethodOf(m) == IF m = "missing" THEN "code" ELSE m

\* The three early returns of the create request.
RejectCreate(key, m, p) ==
    /\ BootOk
    /\ \/ /\ ~ApiKeyOk(key)
          /\ step' = Answer("create", {}, "unauthorized", 401, <<>>, <<key, m, p>>)
       \/ /\ ApiKeyOk(key)
          /\ MethodOf(m) \notin {"code", "qr"}
          /\ step' = Answer("create", {}, "method", 400, <<>>, <<key, m, p>>)
       \/ /\ ApiKeyOk(key)
          /\ MethodOf(m) = "code"
          /\ ~validatePhone(p).ok
          /\ step' = Answer("create", {}, "phone", 400, <<>>, <<key, m, p>>)
    /\ UNCHANGED <<apiKeySet, nextId, registry, sessVars, timerVars, dir, aged,
                   handles, tasks, subs, cleanupRuns, fails>>
    /\ UNCHANGED <<idleFired, config, io>>

\* The model sends create requests, good or bad, until MaxSessions sessions
\* were created.
CreateRejected(key, m, p) == nextId <= MaxSessions /\ RejectCreate(key, m, p)

\* The accepted create request: the session is built and registered, its TTL
\* timer set, startPairing called.
Register(key, m, p) ==
    LET s == nextId IN
    /\ BootOk
    /\ nextId <= MaxIds
    /\ ApiKeyOk(key)
    /\ MethodOf(m) \in {"code", "qr"}
    /\ MethodOf(m) = "code" => validatePhone(p).ok
    /\ nextId' = nextId + 1
    /\ registry' = registry \cup {s}
    /\ method' = [method EXCEPT ![s] = MethodOf(m)]
    /\ phone' = [phone EXCEPT
                   ![s] = IF MethodOf(m) = "code" THEN validatePhone(p).phone
                          ELSE <<>>]
    /\ ttlArmed' = [ttlArmed EXCEPT ![s] = TRUE]
    /\ tasks' = tasks (+) One(StartPairingTask(s, "create"))
    /\ step' = Answer("create", {s}, IF apiKeySet THEN "streamKey" ELSE "null",
                      200, <<>>, <<key, m, p>>)
    /\ UNCHANGED <<apiKeySet, sock, retries, lastQr, lastCode, idleArmed, dir,
                   aged, handles, subs, cleanupRuns, fails>>
    /\ UNCHANGED <<idleFired, config, io>>

Create(key, m, p) == nextId <= MaxSessions /\ Register(key, m, p)

(* --------------------------- startPairing ------------------------------ *)
\* fs.ensureDir resolved: touchIdle(s), then await useMultiFileAuthState and
\* fetchLatestBaileysVersion.
EnsureDirDone(t) ==
    /\ t.pc = "sp_ensureDir"
    /\ dir' = [dir EXCEPT ![t.sid] = TRUE]
    /\ idleArmed' = [idleArmed EXCEPT ![t.sid] = TRUE]
    /\ tasks' = Swap(t, One(Task(t.sid, "sp_authState", 0, t.arg)))
    /\ step' = Quiet
    /\ UNCHANGED <<apiKeySet, nextId, registry, sessVars, ttlArmed, aged,
                   handles, subs, cleanupRuns, fails>>
    /\ UNCHANGED <<idleFired, config, io>>

\* The message of the catch handler the caller attached to startPairing(s).
StartFailedMsg(by) ==
    IF by = "create" THEN "Failed to start pairing session."
    ELSE IF by = "close" THEN "Retry failed. Try again."
    ELSE "Retry failed. Try QR instead."

\* fs.ensureDir or useMultiFileAuthState rejected: startPairing rejects and
\* the caller's catch handler emits the error and calls cleanupSession.
StartPairingFailed(t) ==
    /\ t.pc \in {"sp_ensureDir", "sp_authState"}
    /\ CleanupStart(t.sid, handles[t.sid])
    /\ tasks' = Swap(t, One(CleanupTask(t.sid)))
    /\ step' = Step("startFailed", t.sid, 0, t.arg, <<Err(StartFailedMsg(t.arg))>>)
    /\ UNCHANGED <<apiKeySet, nextId, registry, sessVars, dir, aged, subs,
                   fails>>
    /\ UNCHANGED <<idleFired, config, io>>

\* useMultiFileAuthState and fetchLatestBaileysVersion settled (a failure of
\* the latter is caught and logged): makeWASocket, s.sock = sock, the handlers
\* are attached; method code goes on to the settle delay, method qr returns.
MakeSocket(t) ==
    LET s == t.sid
        h == Len(handles[s]) + 1
    IN
    /\ t.pc = "sp_authState"
    /\ handles' = [handles EXCEPT ![s] = Append(@, NewHandle)]
    /\ sock' = [sock EXCEPT ![s] = h]
    /\ IF method[s] = "code"
       THEN /\ tasks' = Swap(t, One(Task(s, "sp_settle", h, "")))
            /\ step' = Step("makeSocket", s, h, t.arg, <<Status("requesting_code")>>)
       ELSE /\ tasks' = Swap(t, NoTasks)
            /\ step' = Step("makeSocket", s, h, t.arg, <<Status("waiting_qr")>>)
    /\ UNCHANGED <<apiKeySet, nextId, registry, method, phone, retries, lastQr,
                   lastCode, timerVars, dir, aged, subs, cleanupRuns,
                   fails>>
    /\ UNCHANGED <<idleFired, config, io>>

\* delay(5000) elapsed: if (s.sock !== sock) return; else requestPairingCode.
SettleDone(t) ==
    /\ t.pc = "sp_settle"
    /\ tasks' = Swap(t, IF sock[t.sid] # t.h THEN NoTasks
                        ELSE One(Task(t.sid, "sp_reqCode", t.h, "")))
    /\ step' = Quiet
    /\ UNCHANGED <<apiKeySet, nextId, registry, sessVars, timerVars, dir, aged,
                   handles, subs, cleanupRuns, fails>>
    /\ UNCHANGED <<idleFired, config, io>>

\* requestPairingCode resolved with raw: only a socket that is live and has
\* not reported close answers.
CodeReceived(t, raw) ==
    LET s == t.sid IN
    /\ t.pc = "sp_reqCode"
    /\ handles[s][t.h].live
    /\ ~handles[s][t.h].closed
    /\ lastCode' = [lastCode EXCEPT ![s] = FormatCode(raw)]
    /\ idleArmed' = [idleArmed EXCEPT ![s] = TRUE]
    /\ tasks' = Swap(t, NoTasks)
    /\ step' = Step("code", s, t.h, "", <<Ev("code", FormatCode(raw))>>)
    /\ UNCHANGED <<apiKeySet, nextId, registry, method, phone, sock, retries,
                   lastQr, ttlArmed, dir, aged, handles, subs,
                   cleanupRuns, fails>>
    /\ UNCHANGED <<idleFired, config, io>>

\* requestPairingCode rejected with status code `code`.
CodeFailed(t, code) ==
    LET s == t.sid IN
    /\ t.pc = "sp_reqCode"
    /\ IF RetryDecision(retries[s], code)
       THEN /\ retries' = [retries EXCEPT ![s] = NextRetries(@)]
            /\ fails' = [fails EXCEPT ![s].codes = @ + 1]
            /\ handles' = [handles EXCEPT ![s] = EndHandle(@, sock[s])]
            /\ tasks' = Swap(t, One(RetryTask(s, "rc_endSock", t.h,
                                               NextRetries(retries[s]), 0)))
            /\ step' = Step("codeFailed", s, t.h, code,
                            <<Retrying(NextRetries(retries[s]))>>)
       ELSE /\ tasks' = Swap(t, NoTasks)
            /\ step' = Step("codeFailed", s, t.h, code,
                            <<Err(IF code = "forbidden"
                                  THEN "Pairing code isn't available right now. Use QR Scan."
                                  ELSE "Failed to generate pairing code")>>)
            /\ UNCHANGED <<retries, fails, handles>>
    /\ UNCHANGED <<apiKeySet, nextId, registry, method, phone, sock, lastQr,
                   lastCode, timerVars, dir, aged, subs, cleanupRuns>>
    /\ UNCHANGED <<idleFired, config, io>>

\* endSocketOnly(s) resumed after sock.end(): s.sock = null; then the backoff
\* is computed from s.retries as it is now, and waited.
EndSockDone(t) ==
    LET s == t.sid IN
    /\ t.pc \in {"rc_endSock", "h_endSock"}
    /\ sock' = [sock EXCEPT ![s] = NoSock]
    /\ handles' = [handles EXCEPT
                     ![s] = IF sock[s] # NoSock /\ ~@[sock[s]].live
                            THEN [@ EXCEPT ![sock[s]] = Retired] ELSE @]
    /\ tasks' = Swap(t, One(RetryTask(s,
                     IF t.pc = "rc_endSock" THEN "rc_backoff" ELSE "h_backoff",
                     t.h, t.n, Backoff(retries[s]))))
    /\ step' = Quiet
    /\ UNCHANGED <<apiKeySet, nextId, registry, method, phone, retries, lastQr,
                   lastCode, timerVars, dir, aged, subs, cleanupRuns, fails>>
    /\ UNCHANGED <<idleFired, config, io>>

\* delay(backoff) elapsed: if (!sessions.has(s.id)) return; startPairing(s).
BackoffDone(t) ==
    /\ t.pc \in {"rc_backoff", "h_backoff"}
    /\ IF SessionExists(t.sid)
       THEN /\ Starts(t.sid) < MaxHandles
            /\ tasks' = Swap(t, One(StartPairingTask(t.sid,
                                 IF t.pc = "rc_backoff" THEN "code" ELSE "close")))
            /\ step' = Quiet
       ELSE /\ tasks' = Swap(t, NoTasks)
            /\ step' = Step("backoff", t.sid, t.h, "gone", <<>>)
    /\ UNCHANGED <<apiKeySet, nextId, registry, sessVars, timerVars, dir, aged,
                   handles, subs, cleanupRuns, fails>>
    /\ UNCHANGED <<idleFired, config, io>>

(* --------------------------- cleanupSession ---------------------------- *)
\* A plausible slip: the delete inside the try block of fs.remove, skipped.
sessionsDeleteSkipped(reg, id) == reg

\* A plausible slip: the whole map emptied.
sessionsClear(reg, id) == {}

\* sessions.delete(s.id)
sessionsDelete(reg, id) == reg \ {id}

\* sock.end() and fs.remove(s.dir) settled: sessions.delete(s.id).
CleanupDone(t) ==
    /\ t.pc = "cleanup"
    /\ dir' = [dir EXCEPT ![t.sid] = FALSE]
    /\ registry' = sessionsDelete(registry, t.sid)
    /\ tasks' = Swap(t, NoTasks)
    /\ step' = Quiet
    /\ UNCHANGED <<apiKeySet, nextId, sessVars, timerVars, aged, handles, subs,
                   cleanupRuns, fails>>
    /\ UNCHANGED <<idleFired, config, io>>

(* ------------------------------ timers --------------------------------- *)
\* The absolute-TTL timeout set by POST /api/pair fires.
TtlFire(s) ==
    /\ ttlArmed[s]
    /\ CanSpawn(s)
    /\ CleanupStart(s, handles[s])
    /\ aged' = [aged EXCEPT ![s] = TRUE]
    /\ tasks' = tasks (+) One(CleanupTask(s))
    /\ step' = Step("ttl", s, 0, "", <<Err("Session expired.")>>)
    /\ UNCHANGED <<apiKeySet, nextId, registry, sessVars, dir, subs, fails>>
    /\ UNCHANGED <<idleFired, config, io>>

\* The idle timeout set by touchIdle fires.
IdleFire(s) ==
    /\ idleArmed[s]
    /\ CanSpawn(s)
    /\ CleanupStart(s, handles[s])
    /\ tasks' = tasks (+) One(CleanupTask(s))
    /\ step' = Step("idle", s, 0, "", <<Err("Session expired due to inactivity.")>>)
    /\ UNCHANGED <<apiKeySet, nextId, registry, sessVars, dir, aged, subs,
                   fails>>
    /\ idleFired' = idleFired \cup {s}
    /\ UNCHANGED <<config, io>>

\* A plausible slip: the pass ends after the first expired session.
SweptFirst(S) == {s \in S : \A r \in S : s <= r}

\* The sessions a pass handles, of the sessions S it finds older than the TTL:
\* the loop goes on after each.
Swept(S) == S

\* sweepExpired: every registered session older than the TTL.  The pass at
\* which a session is first found older is the step that ages it.
SweepExpired(S) ==
    /\ S # {}
    /\ S \subseteq registry
    /\ \A s \in registry : aged[s] => s \in S
    /\ \A s \in S, r \in registry : r < s => r \in S
    /\ \A s \in S : cleanupRuns[s] < MaxCleanups /\ CanSpawn(s)
    /\ aged' = [s \in Ids |-> aged[s] \/ s \in S]
    /\ ttlArmed' = [s \in Ids |-> ttlArmed[s] /\ s \notin Swept(S)]
    /\ idleArmed' = [s \in Ids |-> idleArmed[s] /\ s \notin Swept(S)]
    /\ handles' = [s \in Ids |-> IF s \in Swept(S)
                                 THEN EndHandle(handles[s], sock[s])
                                 ELSE handles[s]]
    /\ cleanupRuns' = [s \in Ids |-> IF s \in Swept(S) THEN cleanupRuns[s] + 1
                                     ELSE cleanupRuns[s]]
    /\ tasks' = tasks (+) SetToBag({CleanupTask(s) : s \in Swept(S)})
    /\ step' = [NoStep EXCEPT !.act = "sweep", !.sids = Swept(S),
                              !.evs = <<Err("Session expired.")>>]
    /\ UNCHANGED <<apiKeySet, nextId, registry, sessVars, dir, subs, fails>>
    /\ UNCHANGED <<idleFired, config, io>>

(* ----------------------- connection.update ------------------------------ *)
\* The library delivers connecting, qr and open from a socket that is live and
\* has reported neither open nor close; it reports the close of a socket once,
\* whether the program has ended it or not.  What a socket has reported is
\* kept while it is s.sock: s.sock is only ever set to a new socket or to
\* null, so a socket that is not s.sock never is again.
Handle(s, h) == Created(s) /\ h \in 1..Len(handles[s])
Fresh(s, h) ==
    /\ Handle(s, h)
    /\ handles[s][h].live
    /\ ~handles[s][h].opened
    /\ ~handles[s][h].closed

\* A plausible slip: the handler without its first line.
IsCurrentAlways(s, h) == TRUE

\* s.sock === thisSock
IsCurrent(s, h) == sock[s] = h

\* if (s.sock !== thisSock) return;
UpdateStale(s, h) ==
    /\ Handle(s, h)
    /\ ~IsCurrent(s, h)
    /\ step' = Step("stale", s, h, "", <<>>)
    /\ UNCHANGED <<apiKeySet, nextId, registry, sessVars, timerVars, dir, aged,
                   handles, tasks, subs, cleanupRuns, fails>>
    /\ UNCHANGED <<idleFired, config, io>>

\* QRCode.toDataURL(qr)
ToDataURL(q) == <<"data:image/png;base64", q>>

UpdateConnecting(s, h) ==
    /\ Fresh(s, h)
    /\ IsCurrent(s, h)
    /\ idleArmed' = [idleArmed EXCEPT ![s] = TRUE]
    /\ step' = Step("update", s, h, "connecting", <<Status("connecting")>>)
    /\ UNCHANGED <<apiKeySet, nextId, registry, sessVars, ttlArmed, dir, aged,
                   handles, tasks, subs, cleanupRuns, fails>>
    /\ UNCHANGED <<idleFired, config, io>>

\* An update that carries a QR payload: method qr awaits its rendering.
UpdateQr(s, h, q) ==
    /\ Fresh(s, h)
    /\ IsCurrent(s, h)
    /\ IF method[s] = "qr"
       THEN /\ CanSpawn(s)
            /\ tasks' = tasks (+) One(QrTask(s, h, q))
       ELSE UNCHANGED tasks
    /\ step' = Quiet
    /\ UNCHANGED <<apiKeySet, nextId, registry, sessVars, timerVars, dir, aged,
                   handles, subs, cleanupRuns, fails>>
    /\ UNCHANGED <<idleFired, config, io>>

QrRendered(t) ==
    /\ t.pc = "h_qr"
    /\ lastQr' = [lastQr EXCEPT ![t.sid] = ToDataURL(t.qr)]
    /\ idleArmed' = [idleArmed EXCEPT ![t.sid] = TRUE]
    /\ tasks' = Swap(t, NoTasks)
    /\ step' = Step("qr", t.sid, t.h, "", <<Ev("qr", ToDataURL(t.qr))>>)
    /\ UNCHANGED <<apiKeySet, nextId, registry, method, phone, sock, retries,
                   lastCode, ttlArmed, dir, aged, handles, subs,
                   cleanupRuns, fails>>
    /\ UNCHANGED <<idleFired, config, io>>

QrRenderFailed(t) ==
    /\ t.pc = "h_qr"
    /\ tasks' = Swap(t, NoTasks)
    /\ step' = Step("qrFailed", t.sid, t.h, "", <<Err("Failed to render QR")>>)
    /\ UNCHANGED <<apiKeySet, nextId, registry, sessVars, timerVars, dir, aged,
                   handles, subs, cleanupRuns, fails>>
    /\ UNCHANGED <<idleFired, config, io>>

\* A plausible slip: the reset of the retry counter left out.
RetriesOnOpenKept(n) == n

\* s.retries = 0
RetriesOnOpen(n) == 0

\* connection === 'open': reset the retry counter, report connected, wait for
\* the credentials to reach the disk.
UpdateOpen(s, h) ==
    /\ Fresh(s, h)
    /\ IsCurrent(s, h)
    /\ CanSpawn(s)
    /\ handles' = [handles EXCEPT ![s][h].opened = TRUE]
    /\ idleArmed' = [idleArmed EXCEPT ![s] = TRUE]
    /\ retries' = [retries EXCEPT ![s] = RetriesOnOpen(@)]
    /\ fails' = [fails EXCEPT ![s] = NoFails]
    /\ tasks' = tasks (+) One(Task(s, "h_openSettle", h, ""))
    /\ step' = Step("update", s, h, "open",
                    <<Status("open"), Status("connected")>>)
    /\ UNCHANGED <<apiKeySet, nextId, registry, method, phone, sock, lastQr,
                   lastCode, ttlArmed, dir, aged, subs, cleanupRuns>>
    /\ UNCHANGED <<idleFired, config, io>>

\* delay(1200) elapsed: creds.json is there or not (never without its
\* directory).
OpenSettleDone(t, credsExist) ==
    LET s == t.sid IN
    /\ t.pc = "h_openSettle"
    /\ credsExist => dir[s]
    /\ IF credsExist
       THEN /\ tasks' = Swap(t, One(Task(s, "h_readFile", t.h, "")))
            /\ step' = Quiet
            /\ UNCHANGED <<timerVars, handles, cleanupRuns>>
       ELSE /\ CleanupStart(s, handles[s])
            /\ tasks' = Swap(t, One(CleanupTask(s)))
            /\ step' = Step("openSettle", s, t.h, "nocreds",
                            <<Err("creds.json not found after connect")>>)
    /\ UNCHANGED <<apiKeySet, nextId, registry, sessVars, dir, aged, subs,
                   fails>>
    /\ UNCHANGED <<idleFired, config, io>>

\* String.prototype.trim
RECURSIVE TrimLeft(_)
TrimLeft(s) == IF s # <<>> /\ Head(s) = " " THEN TrimLeft(Tail(s)) ELSE s
RECURSIVE TrimRight(_)
TrimRight(s) ==
    IF s # <<>> /\ s[Len(s)] = " "
    THEN TrimRight(SubSeq(s, 1, Len(s) - 1)) ELSE s
Trim(s) == TrimRight(TrimLeft(s))

EXPORT_ENCRYPTED == config.encrypted
ExportFormat == IF EXPORT_ENCRYPTED THEN "encrypted" ELSE "legacy"
\* sock.sendMessage(to, {text}) called by the step, on socket h.
Msg(to, what) == [to |-> to, body |-> what]
Sent(a, s, h, m) == [Step(a, s, h, "ok", <<>>) EXCEPT !.out = <<m>>]
ExportFailed == Err("Failed to export session")
\* sendMessage resolves only on a socket that is live and has not reported
\* close.
CanDeliver(s, h) == handles[s][h].live /\ ~handles[s][h].closed

\* str.split(c)[0]: what precedes the first c, all of str if it has none.
RECURSIVE SplitFirst(_, _)
SplitFirst(str, c) ==
    IF str = <<>> \/ Head(str) = c THEN <<>>
    ELSE <<Head(str)>> \o SplitFirst(Tail(str), c)

JidSuffix == <<"@s.whatsapp.net">>
NoJid == <<>>

\* A plausible slip: the device suffix of the user id not split off.
safeSelfJidWithDevice(id) ==
    LET number == Trim(SplitFirst(id, "@"))
    IN  IF number # <<>> THEN number \o JidSuffix ELSE NoJid

\* safeSelfJid(sock), id being String(sock?.user?.id || '').
safeSelfJid(id) ==
    LET left == SplitFirst(id, "@")
        number == Trim(SplitFirst(left, ":"))
    IN  IF number # <<>> THEN number \o JidSuffix ELSE NoJid

\* What sock.user.id may hold when the export reads it: nothing, a user with
\* or without a device suffix, and ids that have no number.
UserIds ==
    { <<>>,
      <<"7", "7", ":", "3", "@", "s">>,
      <<"8", "@", "s">>,
      <<":", "3", "@", "s">>,
      <<" ", "@", "s">> }

\* A plausible slip: the confirmation sent before the token.
ExportMessagesConfirmFirst == <<"confirm", "token">>

\* What one export sends, in order: the tokens (exportTokensFromCreds returns
\* one), then the confirmation.
ExportMessages == <<"token", "confirm">>

\* A plausible slip: 'exported' emitted whatever the sends did.
ExportOutcomeAlways(ok) == <<Ev("exported", <<ExportFormat>>)>>

\* The end of the try block: emit 'exported', or the catch block's error.
ExportOutcome(ok) ==
    IF ok THEN <<Ev("exported", <<ExportFormat>>)>> ELSE <<ExportFailed>>

\* fs.readFile settled and safeSelfJid(sock) evaluated on sock.user.id = uid:
\* the token is sent to the self JID, or the catch block reports the failure
\* (of the read, or 'Could not resolve self JID').
ReadFileDone(t, ok, uid) ==
    LET s == t.sid
        selfJid == safeSelfJid(uid)
    IN
    /\ t.pc = "h_readFile"
    /\ IF ok /\ selfJid # NoJid
       THEN /\ tasks' = Swap(t, One(ExportTask(s, "h_sendToken", t.h, selfJid)))
            /\ step' = [Sent("readFile", s, t.h, Msg(selfJid, ExportMessages[1]))
                          EXCEPT !.req = <<uid>>]
       ELSE /\ tasks' = Swap(t, One(Task(s, "h_grace", t.h, "")))
            /\ step' = [Step("readFile", s, t.h, "failed", <<ExportFailed>>)
                          EXCEPT !.req = <<uid>>]
    /\ UNCHANGED <<apiKeySet, nextId, registry, sessVars, timerVars, dir, aged,
                   handles, subs, cleanupRuns, fails>>
    /\ UNCHANGED <<idleFired, config, io>>

\* sendMessage(selfJid, token) settled.  Resolved: after delay(300) the loop
\* over the one token ends and the confirmation is sent.
SendTokenDone(t, ok) ==
    LET s == t.sid IN
    /\ t.pc = "h_sendToken"
    /\ ok => CanDeliver(s, t.h)
    /\ IF ok
       THEN /\ tasks' = Swap(t, One(ExportTask(s, "h_confirm", t.h, t.jid)))
            /\ step' = Sent("sendToken", s, t.h, Msg(t.jid, ExportMessages[2]))
       ELSE /\ tasks' = Swap(t, One(Task(s, "h_grace", t.h, "")))
            /\ step' = Step("sendToken", s, t.h, "failed", <<ExportFailed>>)
    /\ UNCHANGED <<apiKeySet, nextId, registry, sessVars, timerVars, dir, aged,
                   handles, subs, cleanupRuns, fails>>
    /\ UNCHANGED <<idleFired, config, io>>

\* sendMessage(selfJid, confirmation) settled; finally: delay(2500).
ConfirmDone(t, ok) ==
    LET s == t.sid IN
    /\ t.pc = "h_confirm"
    /\ ok => CanDeliver(s, t.h)
    /\ tasks' = Swap(t, One(Task(s, "h_grace", t.h, "")))
    /\ step' = Step("confirm", s, t.h, IF ok THEN "ok" ELSE "failed",
                    ExportOutcome(ok))
    /\ UNCHANGED <<apiKeySet, nextId, registry, sessVars, timerVars, dir, aged,
                   handles, subs, cleanupRuns, fails>>
    /\ UNCHANGED <<idleFired, config, io>>

\* delay(2500) elapsed: cleanupSession(s).
GraceDone(t) ==
    /\ t.pc = "h_grace"
    /\ CleanupStart(t.sid, handles[t.sid])
    /\ tasks' = Swap(t, One(CleanupTask(t.sid)))
    /\ step' = Quiet
    /\ UNCHANGED <<apiKeySet, nextId, registry, sessVars, dir, aged, subs,
                   fails>>
    /\ UNCHANGED <<idleFired, config, io>>

CloseMsg(s, reason) ==
    IF reason = "unavailableService"
    THEN (IF method[s] = "code"
          THEN "WhatsApp service is temporarily unavailable for phone-number pairing (503)."
          ELSE "WhatsApp service is temporarily unavailable (503).")
    ELSE "Couldn't login. Connection closed."

\* A plausible slip: the logged-out test left out.
IsLoggedOutNever(reason) == FALSE

\* reason === DisconnectReason.loggedOut
IsLoggedOut(reason) == reason = "loggedOut"

\* connection === 'close' with lastDisconnect's status code `reason`.
UpdateClose(s, h, reason) ==
    LET hs == [handles[s] EXCEPT ![h].closed = TRUE] IN
    /\ Handle(s, h)
    /\ ~handles[s][h].closed
    /\ IsCurrent(s, h)
    /\ CanSpawn(s)
    /\ IF IsLoggedOut(reason)
       THEN /\ CleanupStart(s, hs)
            /\ tasks' = tasks (+) One(CleanupTask(s))
            /\ step' = Step("close", s, h, reason,
                            <<Status("close"),
                              Err("Logged out by WhatsApp. Start pairing again.")>>)
            /\ UNCHANGED <<retries, fails>>
       ELSE IF RetryDecision(retries[s], reason)
       THEN /\ retries' = [retries EXCEPT ![s] = NextRetries(@)]
            /\ fails' = [fails EXCEPT ![s].closes = @ + 1]
            /\ idleArmed' = [idleArmed EXCEPT ![s] = TRUE]
            /\ handles' = [handles EXCEPT ![s] = EndHandle(hs, sock[s])]
            /\ tasks' = tasks (+) One(RetryTask(s, "h_endSock", h,
                                               NextRetries(retries[s]), 0))
            /\ step' = Step("close", s, h, reason,
                            <<Status("close"), Retrying(NextRetries(retries[s]))>>)
            /\ UNCHANGED <<ttlArmed, cleanupRuns>>
       ELSE /\ CleanupStart(s, hs)
            /\ fails' = [fails EXCEPT
                           ![s].closes = IF isRetryableDisconnectReason(reason)
                                         THEN @ + 1 ELSE @]
            /\ tasks' = tasks (+) One(CleanupTask(s))
            /\ step' = Step("close", s, h, reason,
                            <<Status("close"), Err(CloseMsg(s, reason))>>)
            /\ UNCHANGED retries
    /\ UNCHANGED <<apiKeySet, nextId, registry, method, phone, sock, lastQr,
                   lastCode, dir, aged, subs>>
    /\ UNCHANGED <<idleFired, config, io>>

(* ------------------- GET /api/sessions/:id/events ---------------------- *)
\* The key query parameter: absent, the global API key, or the stream key
\* that POST /api/pair drew for session k; k = MaxSessions + 1 is the stream
\* key of a session other than the model's.
StreamKey(k) == <<"stream", k>>
QueryKeys ==
    {<<"none">>, <<"global">>} \cup {StreamKey(k) : k \in 1..(MaxSessions + 1)}

Snapshot(s) ==
    (IF lastCode[s] # <<>> THEN <<Ev("code", lastCode[s])>> ELSE <<>>)
        \o (IF lastQr[s] # <<>> THEN <<Ev("qr", lastQr[s])>> ELSE <<>>)
        \o <<Status("listening")>>

\* A plausible slip: the global API key accepted for a session's stream.
StreamKeyOkOrGlobal(s, key) ==
    ~apiKeySet \/ key = <<"global">> \/ (key # <<"none">> /\ key = StreamKey(s))

\* if (PAIR_API_KEY) { if (!key || key !== s.streamKey) return 401 }
StreamKeyOk(s, key) == ~apiKeySet \/ (key # <<"none">> /\ key = StreamKey(s))

\* The model subscribes to a session until MaxSubs subscribers are attached.
Subscribe(s, key) ==
    /\ BootOk
    /\ subs[s] < MaxSubs
    /\ IF s \notin registry
       THEN /\ step' = Answer("subscribe", {s}, "", 404, <<>>, <<key>>)
            /\ UNCHANGED subs
       ELSE IF ~StreamKeyOk(s, key)
       THEN /\ step' = Answer("subscribe", {s}, "", 401, <<>>, <<key>>)
            /\ UNCHANGED subs
       ELSE /\ subs' = [subs EXCEPT ![s] = @ + 1]
            /\ step' = Answer("subscribe", {s}, "", 200, Snapshot(s), <<key>>)
    /\ UNCHANGED <<apiKeySet, nextId, registry, sessVars, timerVars, dir, aged,
                   handles, tasks, cleanupRuns, fails>>
    /\ UNCHANGED <<idleFired, config, io>>

\* A plausible slip: the close handler leaves the listeners attached.
ListenersKept(n) == n

\* clearInterval(keepAlive); s.emitter.off(...) for each of the subscriber's
\* five listeners: one subscriber fewer is attached.
ListenersOff(n) == n - 1

\* req.on('close'): the subscriber's keep-alive stops and its listeners are
\* removed.  subs[s] counts the attached subscribers, each with its five
\* listeners and its keep-alive interval.
Unsubscribe(s) ==
    /\ subs[s] > 0
    /\ subs' = [subs EXCEPT ![s] = ListenersOff(@)]
    /\ step' = [Quiet EXCEPT !.act = "unsubscribe", !.sids = {s}]
    /\ UNCHANGED <<apiKeySet, nextId, registry, sessVars, timerVars, dir, aged,
                   handles, tasks, cleanupRuns, fails>>
    /\ UNCHANGED <<idleFired, config, io>>

(* --------------------------- specification ----------------------------- *)
\* The pairing lifecycle but for makeWASocket: the create request, the awaits
\* of startPairing, the handlers of the library's events, the timers, the
\* sweep and cleanupSession.
NextLifecycle ==
    \/ \E key \in ApiKeys, m \in Methods, p \in PhoneInputs :
           CreateRejected(key, m, p)
    \/ \E key \in ApiKeys, m \in Methods, p \in PhoneInputs : Create(key, m, p)
    \/ \E t \in BagToSet(tasks) : EnsureDirDone(t)
    \/ \E t \in BagToSet(tasks) : StartPairingFailed(t)
    \/ \E t \in BagToSet(tasks) : SettleDone(t)
    \/ \E t \in BagToSet(tasks), raw \in RawCodes : CodeReceived(t, raw)
    \/ \E t \in BagToSet(tasks), code \in CodeReasons : CodeFailed(t, code)
    \/ \E t \in BagToSet(tasks) : EndSockDone(t)
    \/ \E t \in BagToSet(tasks) : BackoffDone(t)
    \/ \E t \in BagToSet(tasks) : CleanupDone(t)
    \/ \E s \in Ids : TtlFire(s)
    \/ \E s \in Ids : IdleFire(s)
    \/ \E S \in SUBSET Ids : SweepExpired(S)
    \/ \E s \in Ids, h \in 1..MaxHandles : UpdateStale(s, h)
    \/ \E s \in Ids, h \in 1..MaxHandles : UpdateConnecting(s, h)
    \/ \E s \in Ids, h \in 1..MaxHandles, q \in 1..MaxQr : UpdateQr(s, h, q)
    \/ \E t \in BagToSet(tasks) : QrRendered(t)
    \/ \E t \in BagToSet(tasks) : QrRenderFailed(t)
    \/ \E s \in Ids, h \in 1..MaxHandles : UpdateOpen(s, h)
    \/ \E t \in BagToSet(tasks), c \in BOOLEAN : OpenSettleDone(t, c)
    \/ \E t \in BagToSet(tasks), ok \in BOOLEAN, uid \in UserIds :
           ReadFileDone(t, ok, uid)
    \/ \E t \in BagToSet(tasks), ok \in BOOLEAN : SendTokenDone(t, ok)
    \/ \E t \in BagToSet(tasks), ok \in BOOLEAN : ConfirmDone(t, ok)
    \/ \E t \in BagToSet(tasks) : GraceDone(t)
    \/ \E s \in Ids, h \in 1..MaxHandles, r \in Reasons : UpdateClose(s, h, r)

\* The event stream's requests.
NextStream ==
    \/ \E s \in Ids, key \in QueryKeys : Subscribe(s, key)
    \/ \E s \in Ids : Unsubscribe(s)

NextPairing == NextLifecycle \/ \E t \in BagToSet(tasks) : MakeSocket(t)

Next == NextPairing \/ NextStream

Spec == Init /\ [][Next]_vars

\* The lifecycle alone, with no API key configured (the default).  The event
\* stream's requests write subs and step only and read nothing else of theirs,
\* so what the lifecycle does is the same with and without them.
InitPairing ==
    apiKeySet = FALSE /\ config = DefaultConfig /\ io = NoCall /\ Boot
SpecPairing == InitPairing /\ [][NextPairing]_vars

\* The lifecycle of sessions that open at most StreamSockets sockets, with the
\* event stream's requests.
StreamSockets == 1
NextOneSocket ==
    \/ NextLifecycle
    \/ \E t \in BagToSet(tasks) :
          Len(handles[t.sid]) < StreamSockets /\ MakeSocket(t)
    \/ NextStream
SpecStream == Init /\ [][NextOneSocket]_vars

(* ------------------------------ claims --------------------------------- *)
\* What the last step did on session s.
CloseStep(s) == step.act = "close" /\ s \in step.sids
RetryableClose(s) == CloseStep(s) /\ step.arg \in TransientReasons \cup {"undefined", "null"}
FailureStep(s) == step.act \in {"close", "codeFailed"} /\ s \in step.sids
RetryingEmitted(s) ==
    \E i \in 1..Len(Emitted(s)) :
        Emitted(s)[i].ev = "status" /\ Emitted(s)[i].val[1] = "retrying"
ErrEmitted(s) ==
    \E i \in 1..Len(Emitted(s)) : Emitted(s)[i].ev = "session_error"
\* Suspended continuations of session s at one of the awaits pcs.
Count(s, pcs) ==
    BagCardinality([t \in {u \in TasksOf(s) : u.pc \in pcs} |-> tasks[t]])

\* C1: a session never has two live connection handles at once.
C1_OneLiveHandle == \A s \in Ids : Cardinality(Live(s)) <= 1

\* C2: cleanupSession runs at most once per session: a second trigger does
\* not end the connection and remove the directory again.
C2_CleanupOnce == \A s \in Ids : cleanupRuns[s] <= 1

\* C3: a retry backoff that elapses after its session left the registry starts
\* no startPairing, opens no handle and arms neither timer.
C3_NoRestartAfterRemoval ==
    [][\A s \in Ids :
          (s \notin registry
             /\ Count(s, {"rc_backoff", "h_backoff"})'
                  < Count(s, {"rc_backoff", "h_backoff"}))
          => /\ Count(s, {"sp_ensureDir", "sp_authState"})'
                  = Count(s, {"sp_ensureDir", "sp_authState"})
             /\ handles'[s] = handles[s]
             /\ ttlArmed'[s] = ttlArmed[s]
             /\ idleArmed'[s] = idleArmed[s]
             /\ sock'[s] = sock[s]]_vars
\* A backoff has elapsed on a session that is no longer registered.
C3_BackoffAfterRemoval ==
    /\ step.act = "backoff"
    /\ step.arg = "gone"
    /\ \E s \in step.sids : Created(s) /\ s \notin registry

\* C4: once cleanupSession has begun for a session, a subscribe to its event
\* stream is answered 404.
C4_NotFoundOnceCleanupBegan ==
    \A s \in Ids :
        (step.act = "subscribe" /\ s \in step.sids /\ cleanupRuns[s] > 0)
            => step.resp = 404

\* C5: a session that has left the registry has no live handle and no
\* directory, then and ever after.
C5_NoPartialCleanup ==
    \A s \in Ids : (Created(s) /\ s \notin registry) => (Live(s) = {} /\ ~dir[s])

\* C6: the retry counter of every session stays within 0..MAX_RETRIES.
C6_RetriesInRange == \A s \in Ids : retries[s] \in 0..MAX_RETRIES
\* A registered session that no cleanup has touched has spent every retry.
C6_RetriesAtMax ==
    \E s \in registry : retries[s] = MAX_RETRIES /\ cleanupRuns[s] = 0

\* C7: with the attempt count at or above MAX_RETRIES the retry decision is
\* false for every reason, in the function of either server, and a step taken
\* by a session in that state neither raises the counter nor emits 'retrying'.
C7_NoRetryAtMax ==
    /\ \A n \in MAX_RETRIES..(MAX_RETRIES + 2), r \in Reasons :
          ~RetryDecision(n, r) /\ ~shouldRetry(n, r)
    /\ [][\A s \in Ids :
             retries[s] >= MAX_RETRIES
                => (retries'[s] <= retries[s] /\ ~RetryingEmitted(s)')]_vars
\* A failure with no status code was handled with every retry spent, and it
\* was reported as an error.
C7_UndefinedAtMax ==
    \E s \in Ids :
        /\ FailureStep(s)
        /\ step.arg = "undefined"
        /\ retries[s] = MAX_RETRIES
        /\ ErrEmitted(s)
        /\ ~RetryingEmitted(s)

\* C8: below MAX_RETRIES the decision is true for an undefined or null reason
\* and for each of the five known-transient reasons, and false for loggedOut
\* and for every other reason; the close handler and the pairing-code catch
\* block act on it: a failure they report without 'retrying' is one outside
\* the list or one met with every retry spent.
C8_DecisionBelowMax ==
    /\ \A n \in 0..(MAX_RETRIES - 1), r \in Reasons :
          RetryDecision(n, r)
              <=> r \in {"undefined", "null", "connectionClosed",
                         "connectionLost", "timedOut", "restartRequired",
                         "unavailableService"}
    /\ \A s \in Ids :
          FailureStep(s)
             => IF step.arg \in {"undefined", "null", "connectionClosed",
                                 "connectionLost", "timedOut",
                                 "restartRequired", "unavailableService"}
                THEN RetryingEmitted(s) \/ retries[s] >= MAX_RETRIES
                ELSE ~RetryingEmitted(s) /\ ErrEmitted(s)
\* A close with reason unavailableService was retried.
C8_Retried503 ==
    \E s \in Ids :
        CloseStep(s) /\ step.arg = "unavailableService" /\ RetryingEmitted(s)

\* C9 as stated: the k-th consecutive transient close since the last open,
\* k <= MAX_RETRIES, emits 'retrying' with retry = k.
C9_RetryIsCloseCount ==
    \A s \in Ids :
        (RetryableClose(s) /\ fails[s].closes <= MAX_RETRIES)
            => EmittedEv(s, Retrying(fails[s].closes))

\* C9 amended: when no pairing-code failure was retried since the last open,
\* the k-th consecutive transient close since then, k <= MAX_RETRIES, emits
\* 'retrying' with retry = k, and k is the session's retry counter.
C9_RetryIsCloseCountNoCodeRetry ==
    \A s \in Ids :
        (RetryableClose(s) /\ fails[s].codes = 0
            /\ fails[s].closes <= MAX_RETRIES)
            => /\ EmittedEv(s, Retrying(fails[s].closes))
               /\ retries[s] = fails[s].closes
\* The second transient close in a row, with no pairing-code failure since the
\* create request, has emitted retry = 2.
C9_SecondClose ==
    \E s \in Ids :
        /\ RetryableClose(s)
        /\ fails[s] = [closes |-> 2, codes |-> 0]
        /\ EmittedEv(s, Retrying(2))

\* C10 as stated: with MAX_RETRIES = 3 the third transient close in a row is
\* answered with the terminal error and cleanup, not with 'retrying'.
C10_ThirdCloseTerminal ==
    \A s \in Ids :
        (RetryableClose(s) /\ fails[s].closes = MAX_RETRIES)
            => (ErrEmitted(s) /\ ~RetryingEmitted(s) /\ cleanupRuns[s] > 0)

\* C10 amended: with MAX_RETRIES = 3 it is the fourth transient close in a row
\* that is answered with the terminal error and cleanup, not with 'retrying';
\* no step emits retry = 4.
C10_FourthCloseTerminal ==
    \A s \in Ids :
        /\ (RetryableClose(s) /\ fails[s].closes = MAX_RETRIES + 1)
              => (ErrEmitted(s) /\ ~RetryingEmitted(s) /\ cleanupRuns[s] > 0)
        /\ ~EmittedEv(s, Retrying(MAX_RETRIES + 1))
\* The fourth transient close in a row was handled and no pairing-code failure
\* came in between.
C10_FourthClose ==
    \E s \in Ids :
        /\ RetryableClose(s)
        /\ fails[s] = [closes |-> MAX_RETRIES + 1, codes |-> 0]
        /\ ErrEmitted(s)

\* C11: a registered session whose cleanup has not begun has both its
\* absolute-TTL timer and its idle timer armed.
C11_BothTimersArmed ==
    \A s \in registry : cleanupRuns[s] = 0 => (ttlArmed[s] /\ idleArmed[s])

\* C12: once the idle timeout of a QR session has fired, every subscribe to
\* its event stream is answered 404.
C12_NotFoundAfterIdleExpiry ==
    \A s \in idleFired :
        (method[s] = "qr" /\ step.act = "subscribe" /\ s \in step.sids)
            => step.resp = 404

\* The last step reported a terminal protocol failure of session s: a close
\* or a pairing-code failure that is not retried, a failed export, or missing
\* credentials.
TerminalFailureStep(s) ==
    /\ s \in step.sids
    /\ step.act \in {"close", "codeFailed", "openSettle", "readFile",
                     "sendToken", "confirm"}
    /\ ErrEmitted(s)

\* C13: a step that reports a terminal protocol failure has called
\* cleanupSession, or leaves the continuation that calls it after the export's
\* grace delay.
C13_TerminalFailureDestroys ==
    \A s \in Ids :
        TerminalFailureStep(s)
            => (cleanupRuns[s] > 0 \/ Count(s, {"h_grace"}) > 0)

(* --------------------- calls of the pure functions --------------------- *)
\* Every variable but io: a call of a pure function or of the decrypt script
\* touches none of them.
serverVars == <<apiKeySet, nextId, registry, method, phone, sock, retries,
                lastQr, lastCode, ttlArmed, idleArmed, dir, aged, handles,
                tasks, subs, cleanupRuns, fails, idleFired, config, step>>
\* The server's variables as they are after boot, with the default export.
ServerIdle == apiKeySet = FALSE /\ config = DefaultConfig /\ Boot

Call(fn, x) == [fn |-> fn, in |-> x, out |-> <<>>]

\* The function of the first server of the file: { valid, cleaned }.
validatePhoneOld(p) ==
    LET cleaned == StripNonDigits(p)
    IN  IF Len(cleaned) < 10 \/ Len(cleaned) > 15
        THEN [valid |-> FALSE, cleaned |-> <<>>]
        ELSE [valid |-> TRUE, cleaned |-> cleaned]

\* Phone inputs: up to MaxPhoneDigits digits with up to MaxNonDigits other
\* characters put in anywhere.  A missing phone is the empty string:
\* String(phone || '').
MaxPhoneDigits == 16
MaxNonDigits == 2
DigitRow == <<"1", "2", "3", "4", "5", "6", "7", "8", "9", "0">>
DigitString(k) == [i \in 1..k |-> DigitRow[((i - 1) % 10) + 1]]
NonDigits == {"+", "a"}
InsertAt(seq, i, c) == SubSeq(seq, 1, i) \o <<c>> \o SubSeq(seq, i + 1, Len(seq))
RECURSIVE WithNonDigits(_, _)
WithNonDigits(S, n) ==
    IF n = 0 THEN S
    ELSE S \cup WithNonDigits(
                    UNION {{InsertAt(x, i, c) : i \in 0..Len(x), c \in NonDigits} :
                           x \in S},
                    n - 1)

PhoneStrings ==
    WithNonDigits({DigitString(k) : k \in 0..MaxPhoneDigits}, MaxNonDigits)

InitPhone == ServerIdle /\ io \in {Call("validatePhone", p) : p \in PhoneStrings}

\* validatePhone(phone) is called, by either server.
ValidatePhoneCall ==
    /\ io.fn = "validatePhone"
    /\ io.out = <<>>
    /\ io' = [io EXCEPT !.out = <<validatePhone(io.in), validatePhoneOld(io.in)>>]
    /\ UNCHANGED serverVars

SpecPhone == InitPhone /\ [][ValidatePhoneCall]_vars

IsDigit(c) == c \in {"0", "1", "2", "3", "4", "5", "6", "7", "8", "9"}

\* C14: validatePhone accepts an input exactly when it has 10 to 15 digits,
\* and then returns its digits in order; so does the first server's function.
C14_PhoneAcceptedIffTenToFifteenDigits ==
    (io.fn = "validatePhone" /\ io.out # <<>>)
        => LET digits == SelectSeq(io.in, IsDigit)
               good == Len(digits) >= 10 /\ Len(digits) <= 15
           IN  /\ io.out[1].ok <=> good
               /\ io.out[1].ok => io.out[1].phone = digits
               /\ io.out[2].valid <=> good
               /\ io.out[2].valid => io.out[2].cleaned = digits
\* An input of 15 digits and two other characters was accepted.
C14_FifteenDigitsAccepted ==
    /\ io.fn = "validatePhone"
    /\ io.out # <<>>
    /\ Len(io.in) = 17
    /\ io.out[1].ok
    /\ Len(io.out[1].phone) = 15

\* ---------------------------------------------------------------------------
\* Create requests at any time of a pairing: the create request's early returns
\* are taken in every state, next to the steps of a pairing that reaches its
\* code or QR and the two expiries.
NextCreate ==
    \/ \E key \in ApiKeys, m \in Methods, p \in PhoneInputs :
           RejectCreate(key, m, p)
    \/ \E key \in ApiKeys, m \in Methods, p \in PhoneInputs : Create(key, m, p)
    \/ \E t \in BagToSet(tasks) : EnsureDirDone(t)
    \/ \E t \in BagToSet(tasks) :
          Len(handles[t.sid]) < StreamSockets /\ MakeSocket(t)
    \/ \E t \in BagToSet(tasks) : SettleDone(t)
    \/ \E t \in BagToSet(tasks), raw \in RawCodes : CodeReceived(t, raw)
    \/ \E s \in Ids, h \in 1..MaxHandles : UpdateConnecting(s, h)
    \/ \E s \in Ids, h \in 1..MaxHandles, q \in 1..MaxQr : UpdateQr(s, h, q)
    \/ \E t \in BagToSet(tasks) : QrRendered(t)
    \/ \E s \in Ids : TtlFire(s)
    \/ \E s \in Ids : IdleFire(s)
    \/ \E t \in BagToSet(tasks) : CleanupDone(t)
SpecCreate == Init /\ [][NextCreate]_vars

\* The request body of the last step, read without the server's own functions.
DigitCount(p) == Len(SelectSeq(p, IsDigit))
CreateStep == step.act = "create"
InvalidCreate ==
    /\ CreateStep
    /\ \/ step.req[2] \notin {"missing", "code", "qr"}
       \/ /\ step.req[2] \in {"missing", "code"}
          /\ DigitCount(step.req[3]) \notin 10..15
PassesGate == ~apiKeySet \/ step.req[1] = "global"
NothingCreated ==
    /\ step'.sids = {}
    /\ UNCHANGED <<nextId, registry, sessVars, timerVars, dir, handles, tasks>>

\* C15 as stated: a create request whose method is neither code nor qr, or
\* whose method is code with a missing or invalid phone, is answered 400 with
\* no session id, and registry, timers and connections are as before.
C15_InvalidCreateIs400 ==
    [][InvalidCreate' => (step'.resp = 400 /\ NothingCreated)]_vars

\* C15, amended: the same for the requests that pass the API-key gate; an
\* invalid request that fails the gate is answered 401, and it too creates
\* nothing.
C15_InvalidCreateIs400PastGate ==
    [][InvalidCreate' =>
         /\ NothingCreated
         /\ step'.resp = IF PassesGate' THEN 400 ELSE 401]_vars

\* C15's case: a code request without a phone was answered 400 while a session
\* was registered with its timers armed and its socket live.
C15_Rejected400WhileSessionLive ==
    /\ InvalidCreate
    /\ step.req[2] = "code" /\ step.req[3] = <<>>
    /\ step.resp = 400
    /\ \E s \in registry : ttlArmed[s] /\ idleArmed[s] /\ sock[s] # NoSock

\* C16: with a global API key configured, a create request that does not
\* present that key is answered 401 and creates no session, the registry being
\* as before; with no key configured no create request is stopped at the gate.
C16_CreateGate ==
    [][CreateStep' =>
         IF apiKeySet /\ step'.req[1] # "global"
         THEN step'.resp = 401 /\ NothingCreated
         ELSE step'.resp # 401]_vars

\* C16's case: a create request with a wrong key was answered 401 while a
\* session was registered.
C16_WrongKeyRefused ==
    /\ CreateStep
    /\ apiKeySet
    /\ step.req[1] = "wrong"
    /\ step.resp = 401
    /\ registry # {}

\* C17: with a global API key configured, a subscribe to a registered session
\* is accepted only with that session's own stream key; a missing key, the
\* global API key or another session's stream key is answered 401 and attaches
\* no listener.
SubscribeStep(s) == step.act = "subscribe" /\ s \in step.sids
B64Alphabet ==
    <<
       "A", "B", "C", "D", "E", "F", "G", "H", "I", "J", "K", "L", "M", "N", "O", "P",
       "Q", "R", "S", "T", "U", "V", "W", "X", "Y", "Z", "a", "b", "c", "d", "e", "f",
       "g", "h", "i", "j", "k", "l", "m", "n", "o", "p", "q", "r", "s", "t", "u", "v",
       "w", "x", "y", "z", "0", "1", "2", "3", "4", "5", "6", "7", "8", "9", "+", "/" >>
B64Char(n) == B64Alphabet[n + 1]
B64Value(c) == (CHOOSE i \in 1..64 : B64Alphabet[i] = c) - 1
IsB64(c) == \E i \in 1..64 : B64Alphabet[i] = c

RECURSIVE ToBase64(_)
ToBase64(buf) ==
    IF Len(buf) = 0 THEN <<>>
    ELSE IF Len(buf) = 1
    THEN <<B64Char(buf[1] \div 4), B64Char((buf[1] % 4) * 16), "=", "=">>
    ELSE IF Len(buf) = 2
    THEN <<B64Char(buf[1] \div 4),
           B64Char((buf[1] % 4) * 16 + buf[2] \div 16),
           B64Char((buf[2] % 16) * 4), "=">>
    ELSE <<B64Char(buf[1] \div 4),
           B64Char((buf[1] % 4) * 16 + buf[2] \div 16),
           B64Char((buf[2] % 16) * 4 + buf[3] \div 64),
           B64Char(buf[3] % 64)>> \o ToBase64(SubSeq(buf, 4, Len(buf)))

\* Buffer.from(s, 'base64'): the text ends at the first '='; characters
\* outside the alphabet are skipped; a last group of two or three characters
\* gives one or two bytes, the bits left over being dropped.
RECURSIVE UpToPad(_)
UpToPad(s) ==
    IF s = <<>> \/ Head(s) = "=" THEN <<>> ELSE <<Head(s)>> \o UpToPad(Tail(s))
RECURSIVE SextetsToBytes(_)
SextetsToBytes(v) ==
    IF Len(v) < 2 THEN <<>>
    ELSE IF Len(v) = 2 THEN <<v[1] * 4 + v[2] \div 16>>
    ELSE IF Len(v) = 3
    THEN <<v[1] * 4 + v[2] \div 16, (v[2] % 16) * 16 + v[3] \div 4>>
    ELSE <<v[1] * 4 + v[2] \div 16, (v[2] % 16) * 16 + v[3] \div 4,
           (v[3] % 4) * 64 + v[4]>> \o SextetsToBytes(SubSeq(v, 5, Len(v)))
FromBase64(s) ==
    LET data == SelectSeq(UpToPad(s), IsB64)
    IN  SextetsToBytes([i \in 1..Len(data) |-> B64Value(data[i])])

\* String.prototype.replace with a global one-character pattern.
ReplaceAll(s, from, to) == [i \in 1..Len(s) |-> IF s[i] = from THEN to ELSE s[i]]
\* .replace(/=+$/g, '')
RECURSIVE StripPad(_)
StripPad(s) ==
    IF s # <<>> /\ s[Len(s)] = "=" THEN StripPad(SubSeq(s, 1, Len(s) - 1)) ELSE s
Repeat(c, n) == [i \in 1..n |-> c]

b64url(buf) == StripPad(ReplaceAll(ReplaceAll(ToBase64(buf), "+", "-"), "/", "_"))

b64urlDecodeToBuf(s) ==
    LET b64 == ReplaceAll(ReplaceAll(s, "-", "+"), "_", "/")
        pad == IF Len(b64) % 4 # 0 THEN Repeat("=", 4 - (Len(b64) % 4)) ELSE <<>>
    IN  FromBase64(b64 \o pad)

\* Buffer.from(text, 'utf8') and buf.toString('utf8') on the printable ASCII
\* range (backslash and backtick, which no text of the model holds, are
\* spelled out);
\* any other byte decodes to a character no JSON text of the model has.
Ascii ==
    <<
       " ", "!", "\"", "#", "$", "%", "&", "'", "(", ")", "*", "+", ",", "-", ".", "/",
       "0", "1", "2", "3", "4", "5", "6", "7", "8", "9", ":", ";", "<", "=", ">", "?",
       "@", "A", "B", "C", "D", "E", "F", "G", "H", "I", "J", "K", "L", "M", "N", "O",
       "P", "Q", "R", "S", "T", "U", "V", "W", "X", "Y", "Z", "[", "BACKSLASH", "]", "^", "_",
       "BACKTICK", "a", "b", "c", "d", "e", "f", "g", "h", "i", "j", "k", "l", "m", "n", "o",
       "p", "q", "r", "s", "t", "u", "v", "w", "x", "y", "z", "{", "|", "}", "~" >>
CharCode(c) == (CHOOSE i \in 1..95 : Ascii[i] = c) + 31
Utf8Encode(text) == [i \in 1..Len(text) |-> CharCode(text[i])]
Utf8Decode(buf) ==
    [i \in 1..Len(buf) |->
        IF buf[i] >= 32 /\ buf[i] <= 126 THEN Ascii[buf[i] - 31] ELSE "U+FFFD"]

\* The two token prefixes.
PrefixEnc == <<"M", "a", "n", "t", "r", "a", "E", "n", "c", "~">>
PrefixLegacy == <<"M", "a", "n", "t", "r", "a", "~">>

StartsWith(s, prefix) ==
    Len(s) >= Len(prefix) /\ SubSeq(s, 1, Len(prefix)) = prefix

\* JSON values: scalars, and objects with the envelope's three members.
JNum(n) == [t |-> "number", n |-> n, s |-> <<>>]
JStr(s) == [t |-> "string", n |-> 0, s |-> s]
JNull == [t |-> "null", n |-> 0, s |-> <<>>]
JEnvelope(v, creds, ts) == [t |-> "object", v |-> v, creds |-> creds, ts |-> ts]

RECURSIVE Decimal(_)
Decimal(n) ==
    IF n < 10 THEN <<Ascii[n + 17]>>
    ELSE Decimal(n \div 10) \o <<Ascii[(n % 10) + 17]>>

\* JSON.stringify; the strings of the model hold base64 characters only, none
\* of which is escaped.
StringifyScalar(x) ==
    IF x.t = "number" THEN Decimal(x.n)
    ELSE IF x.t = "string" THEN <<"\"">> \o x.s \o <<"\"">>
    ELSE <<"n", "u", "l", "l">>
Stringify(x) ==
    IF x.t # "object" THEN StringifyScalar(x)
    ELSE <<"{", "\"", "v", "\"", ":">> \o StringifyScalar(x.v)
           \o <<",", "\"", "c", "r", "e", "d", "s", "\"", ":">>
           \o StringifyScalar(x.creds)
           \o <<",", "\"", "t", "s", "\"", ":">> \o StringifyScalar(x.ts)
           \o <<"}">>

\* crypto.scryptSync(secret, 'mantra-pair', 32): a key per secret.  The key
\* enters the cipher through one number; the secrets of the model have
\* distinct numbers.
RECURSIVE WeightedSum(_)
WeightedSum(b) ==
    IF b = <<>> THEN 0 ELSE Len(b) * b[Len(b)] + WeightedSum(SubSeq(b, 1, Len(b) - 1))
RECURSIVE Sum(_)
Sum(b) == IF b = <<>> THEN 0 ELSE Head(b) + Sum(Tail(b))
scryptSync(secret) == WeightedSum(Utf8Encode(secret)) % 251

\* aes-256-gcm, taken as ideal and stood in for by a keystream added to the
\* plaintext and a 16-byte tag over key, nonce and ciphertext that changes
\* with the key and with every single-byte change of nonce or ciphertext.
KeyStream(key, iv, i) == (key + Sum(iv) + 7 * i) % 256
CipherUpdate(key, iv, plain) ==
    [i \in 1..Len(plain) |-> (plain[i] + KeyStream(key, iv, i)) % 256]
AuthTag(key, iv, ciphertext) ==
    [j \in 1..16 |-> (key + Sum(iv) + Sum(ciphertext) + j) % 256]
\* decipher.update / final: <<>> when final() throws, else <<plaintext>>.
Decipher(key, iv, tag, ciphertext) ==
    IF AuthTag(key, iv, ciphertext) # tag THEN <<>>
    ELSE << [i \in 1..Len(ciphertext) |->
                (ciphertext[i] + 256 - KeyStream(key, iv, i)) % 256] >>

\* A plausible slip: the tag packed before the nonce.
PackTagFirst(iv, tag, ciphertext) == tag \o iv \o ciphertext

\* Buffer.concat([iv, tag, ciphertext])
Pack(iv, tag, ciphertext) == iv \o tag \o ciphertext

\* Seals a text as the exporter seals its envelope.
Seal(text, SESSION_SECRET, iv) ==
    LET key == scryptSync(SESSION_SECRET)
        payload == Utf8Encode(text)
        ciphertext == CipherUpdate(key, iv, payload)
        tag == AuthTag(key, iv, ciphertext)
    IN  PrefixEnc \o b64url(Pack(iv, tag, ciphertext))

\* exportTokensFromCreds, with the process's trimmed secret, the nonce that
\* randomBytes gave and the time that now() gave.
exportTokensFromCreds(credsBytes, SESSION_SECRET, iv, ts) ==
    LET base64Creds == ToBase64(credsBytes)
    IN  IF ~EXPORT_ENCRYPTED
        THEN << PrefixLegacy \o base64Creds >>
        ELSE << Seal(Stringify(JEnvelope(JNum(1), JStr(base64Creds), JNum(ts))),
                     SESSION_SECRET, iv) >>
\* Inputs of the exporter: credential bytes, secrets as the environment holds
\* them, nonces and times.
MaxCredLen == 2
CredByteValues == {0, 65, 255}
CredsInputs == UNION {[1..n -> CredByteValues] : n \in 0..MaxCredLen}
SecretInputs == {<<>>, <<" ">>, <<"k">>, <<" ", "k", " ">>, <<"q">>}
NonceInputs == {[i \in 1..12 |-> 0], [i \in 1..12 |-> (37 * i) % 256]}
TsInputs == {7, 17, 1700}

\* JSON texts the utility may find inside a token that authenticates: the
\* exporter's envelopes, and envelopes and scalars that another holder of the
\* secret sealed.
HonestEnvelopes ==
    {JEnvelope(JNum(1), JStr(ToBase64(c)), JNum(ts)) :
        c \in CredsInputs, ts \in TsInputs}
ForgedValues ==
    {JEnvelope(JNum(2), JStr(ToBase64(<<65>>)), JNum(7)),
     JEnvelope(JStr(<<"1">>), JStr(ToBase64(<<65>>)), JNum(7)),
     JEnvelope(JNull, JStr(ToBase64(<<65>>)), JNum(7)),
     JEnvelope(JNum(1), JNum(5), JNum(7)),
     JEnvelope(JNum(1), JNull, JNum(7))}
ForgedScalars == {JNull, JNum(1)}
JsonValues == HonestEnvelopes \cup ForgedValues
\* Texts that are not JSON.
NotJsonTexts ==
    {<<"{">>,
     <<"n", "o", "t", " ", "j", "s", "o", "n">>,
     <<"{", "\"", "v", "\"", ":", "1">>}

\* JSON.parse: <<>> when it throws, else <<value>>.
JSONparse(text) ==
    IF \E x \in ForgedScalars : Stringify(x) = text
    THEN << CHOOSE x \in ForgedScalars : Stringify(x) = text >>
    ELSE IF \E x \in JsonValues : Stringify(x) = text
    THEN << CHOOSE x \in JsonValues : Stringify(x) = text >>
    ELSE <<>>

\* One run of scripts/decrypt-session.js: exit status, whether a message went
\* to stderr, and the writes to stdout.
Exit(status, message) == [exit |-> status, stderr |-> message, stdout |-> <<>>]
\* A plausible slip: the environment's secret used untrimmed.
SecretOfRaw(env) == env
SecretOf(env) == Trim(env)
DecryptSession(token, env) ==
    IF token = <<>> \/ ~StartsWith(token, PrefixEnc) THEN Exit(2, "Usage")
    ELSE LET secret == SecretOf(env) IN
    IF secret = <<>> THEN Exit(2, "SESSION_SECRET is required")
    ELSE LET packed ==
                 b64urlDecodeToBuf(SubSeq(token, Len(PrefixEnc) + 1, Len(token)))
         IN
    IF Len(packed) < 12 + 16 + 1 THEN Exit(2, "Token too short")
    ELSE LET iv == SubSeq(packed, 1, 12)
             tag == SubSeq(packed, 13, 28)
             ciphertext == SubSeq(packed, 29, Len(packed))
             plaintext == Decipher(scryptSync(secret), iv, tag, ciphertext)
         IN
    IF plaintext = <<>> THEN Exit(1, "Decrypt failed")
    ELSE LET parsed == JSONparse(Utf8Decode(plaintext[1])) IN
    IF parsed = <<>> THEN Exit(1, "Invalid payload JSON")
    ELSE IF \/ parsed[1].t # "object"
            \/ parsed[1].v # JNum(1)
            \/ parsed[1].creds.t # "string"
    THEN Exit(1, "Unexpected payload format")
    ELSE [exit |-> 0, stderr |-> "", stdout |-> <<FromBase64(parsed[1].creds.s)>>]
\* ---------------------------------------------------------------------------
\* The exporter called once, then the utility run on what an operator hands
\* it: the exported token with each secret, the token with one payload byte
\* changed, a truncated payload, a token without the prefix; and the utility
\* run on sealed texts that are no envelope of the exporter.
Deltas == {1, 128}
TruncatedLengths == {0, 12, 28}

ExportCalls ==
    {Call("exportTokensFromCreds",
          [creds |-> c, secret |-> e, iv |-> n, ts |-> ts]) :
        c \in CredsInputs, e \in SecretInputs, n \in NonceInputs, ts \in TsInputs}
Utility(token, env, case, creds) ==
    Call("decrypt-session",
         [token |-> token, secret |-> env, case |-> case, creds |-> creds])
CaseOfValue(x) ==
    IF x.t = "object" /\ x.v # JNum(1) THEN "version" ELSE "format"
SealedCalls ==
    {Utility(Seal(text, <<"k">>, [i \in 1..12 |-> 0]), <<"k">>, "notJson", <<>>) :
        text \in NotJsonTexts}
    \cup {Utility(Seal(Stringify(x), <<"k">>, [i \in 1..12 |-> 0]), <<"k">>,
                  CaseOfValue(x), <<>>) : x \in ForgedValues \cup ForgedScalars}

InitExport ==
    /\ apiKeySet = FALSE
    /\ Boot
    /\ \/ /\ io \in ExportCalls
          /\ config \in Configs
          /\ config.secret = (Trim(io.in.secret) # <<>>)
          /\ BootOk
       \/ /\ io \in SealedCalls
          /\ config = DefaultConfig

ExportCall ==
    /\ io.fn = "exportTokensFromCreds"
    /\ io.out = <<>>
    /\ io' = [io EXCEPT !.out = exportTokensFromCreds(io.in.creds,
                                   Trim(io.in.secret), io.in.iv, io.in.ts)]
    /\ UNCHANGED serverVars

Exported == io.fn = "exportTokensFromCreds" /\ io.out # <<>>
Body(token) == SubSeq(token, Len(PrefixEnc) + 1, Len(token))

\* The exported token handed to the utility as it is, with a secret.
RunExported(env) ==
    /\ Exported
    /\ io' = Utility(io.out[1], env,
                     IF ~EXPORT_ENCRYPTED THEN "noPrefix"
                     ELSE IF Trim(env) = <<>> THEN "noSecret"
                     ELSE IF Trim(env) # Trim(io.in.secret) THEN "wrongSecret"
                     ELSE "honest",
                     io.in.creds)
    /\ UNCHANGED serverVars

\* The exported token with byte i of its payload changed by d.
RunAltered(i, d) ==
    /\ Exported
    /\ EXPORT_ENCRYPTED
    /\ LET packed == b64urlDecodeToBuf(Body(io.out[1]))
       IN  /\ i <= Len(packed)
           /\ io' = Utility(PrefixEnc
                              \o b64url([packed EXCEPT ![i] = (@ + d) % 256]),
                            io.in.secret, "altered", io.in.creds)
    /\ UNCHANGED serverVars

\* The exported token with its payload cut to n bytes.
RunTruncated(n) ==
    /\ Exported
    /\ EXPORT_ENCRYPTED
    /\ io' = Utility(PrefixEnc
                       \o b64url(SubSeq(b64urlDecodeToBuf(Body(io.out[1])), 1, n)),
                     io.in.secret, "short", io.in.creds)
    /\ UNCHANGED serverVars

\* No token, the exported token without its prefix, or with the plain prefix.
RunNoPrefix(k) ==
    /\ Exported
    /\ EXPORT_ENCRYPTED
    /\ io' = Utility(IF k = 0 THEN <<>>
                     ELSE IF k = 1 THEN Body(io.out[1])
                     ELSE PrefixLegacy \o Body(io.out[1]),
                     io.in.secret, "noPrefix", io.in.creds)
    /\ UNCHANGED serverVars

DecryptSessionRun ==
    /\ io.fn = "decrypt-session"
    /\ io.out = <<>>
    /\ io' = [io EXCEPT !.out = <<DecryptSession(io.in.token, io.in.secret)>>]
    /\ UNCHANGED serverVars

MaxPacked == 64
NextExport ==
    \/ ExportCall
    \/ \E env \in SecretInputs : RunExported(env)
    \/ \E i \in 1..MaxPacked, d \in Deltas : RunAltered(i, d)
    \/ \E n \in TruncatedLengths : RunTruncated(n)
    \/ \E k \in 0..2 : RunNoPrefix(k)
    \/ DecryptSessionRun
SpecExport == InitExport /\ [][NextExport]_vars

UtilityRan == io.fn = "decrypt-session" /\ io.out # <<>>

\* C18: the utility run with the exporting process's secret on an exported
\* encrypted token writes exactly the exported credential bytes and exits 0;
\* run on that token with one payload byte altered it fails and writes nothing.
C18_RoundTripAndAlteration ==
    UtilityRan =>
        /\ io.in.case = "honest" =>
              io.out[1] = [exit |-> 0, stderr |-> "", stdout |-> <<io.in.creds>>]
        /\ io.in.case = "altered" =>
              io.out[1].exit # 0 /\ io.out[1].stdout = <<>>

\* C18's case: two credential bytes, one of them 255, exported by a process
\* whose secret had surrounding blanks, came back from the utility.
C18_RoundTripped ==
    /\ UtilityRan
    /\ io.in.case = "honest"
    /\ io.in.creds = <<255, 0>>
    /\ io.in.secret = <<" ", "k", " ">>
    /\ io.out[1].stdout = <<io.in.creds>>

\* C19: the utility exits non-zero with a message and writes nothing to stdout
\* for a token without the encrypted prefix, a missing secret, a payload
\* shorter than 12 + 16 + 1 bytes, an authentication failure, an envelope that
\* is not JSON and an envelope whose version is not 1; it writes to stdout only
\* when every check passes.
Refused(status, message) ==
    io.out[1] = [exit |-> status, stderr |-> message, stdout |-> <<>>]
C19_UtilityFailsLoudly ==
    UtilityRan =>
        /\ io.in.case = "noPrefix" => Refused(2, "Usage")
        /\ io.in.case = "noSecret" => Refused(2, "SESSION_SECRET is required")
        /\ io.in.case = "short" => Refused(2, "Token too short")
        /\ io.in.case \in {"altered", "wrongSecret"} => Refused(1, "Decrypt failed")
        /\ io.in.case = "notJson" => Refused(1, "Invalid payload JSON")
        /\ io.in.case \in {"version", "format"} =>
              Refused(1, "Unexpected payload format")
        /\ io.out[1].exit # 0 => io.out[1].stderr # "" /\ io.out[1].stdout = <<>>
        /\ io.out[1].stdout # <<>> => io.in.case = "honest" /\ io.out[1].exit = 0

\* C19's case: an envelope of version 2, sealed with the right secret, was
\* refused with exit status 1.
C19_VersionRefused ==
    /\ UtilityRan
    /\ io.in.case = "version"
    /\ io.out[1].exit = 1
    /\ io.out[1].stdout = <<>>

\* ---------------------------------------------------------------------------
\* The server booted under each setting of EXPORT_ENCRYPTED and SESSION_SECRET.
InitBoot == apiKeySet \in BOOLEAN /\ config \in Configs /\ io = NoCall /\ Boot
SpecBoot == InitBoot /\ [][NextOneSocket]_vars

\* C20: with encrypted export enabled and no secret configured the process
\* fails at boot: no request is ever answered, so no session is created and no
\* token is exported.
C20_NoSecretNoBoot ==
    (config.encrypted /\ ~config.secret) =>
        /\ registry = {}
        /\ nextId = 1
        /\ step = NoStep
        /\ \A s \in Ids : handles[s] = <<>> /\ ~ttlArmed[s] /\ ~idleArmed[s]

\* C20's case: the process was started with encrypted export and no secret,
\* and a key was configured for the requests that never arrive.
C20_BootRefused ==
    /\ config = [encrypted |-> TRUE, secret |-> FALSE]
    /\ apiKeySet
    /\ registry = {}

\* C21 as stated: with no export option set, the token that exportTokensFromCreds
\* returns for delivery carries the encrypted prefix.
C21_DefaultTokenEncrypted ==
    (Exported /\ config = DefaultConfig) => StartsWith(io.out[1], PrefixEnc)

\* The last step settled a pairing-code request made on socket step.h of s.
CodeResultStep(s) == step.act \in {"code", "codeFailed"} /\ s \in step.sids

\* C22 as stated: a pairing-code request that completes after the session's
\* live socket was replaced or ended by a retry-triggering close is dropped: no
\* event, no change of the retry counter, no backoff and no new attempt (the
\* continuation ends and leaves no other behind).
C22_StaleCodeResultAborts ==
    [][\A s \in Ids :
         (/\ CodeResultStep(s)'
          /\ cleanupRuns[s] = 0
          /\ fails[s].closes > 0
          /\ sock[s] # step'.h \/ ~handles[s][step'.h].live)
         => /\ step'.evs = <<>>
            /\ retries'[s] = retries[s]
            /\ BagCardinality(tasks') < BagCardinality(tasks)]_vars

\* C23 as stated: once cleanup of a session has begun, no step arms its idle
\* timer out of a resumed startPairing, opens a socket for it or puts a
\* pairing-code request under way.
C23_StaleStartDiscarded ==
    [][\A s \in Ids :
         cleanupRuns[s] > 0 =>
            /\ Count(s, {"sp_ensureDir"})' < Count(s, {"sp_ensureDir"})
                  => ~idleArmed'[s]
            /\ Len(handles'[s]) = Len(handles[s])
            /\ Count(s, {"sp_reqCode"})' <= Count(s, {"sp_reqCode"})]_vars

\* The events of the session's progress, as opposed to its errors.
ProgressEvents == {"status", "code", "qr", "exported"}
ProgressEmitted(s) ==
    \E i \in 1..Len(Emitted(s)) : Emitted(s)[i].ev \in ProgressEvents

\* C24 as stated: once a session has emitted a terminal error or its cleanup
\* has begun, no later step emits a status, code, qr or exported event for it,
\* changes its retry counter or opens a socket for it.
C24_TerminalAbsorbing ==
    [][\A s \in Ids :
         (cleanupRuns[s] > 0 \/ TerminalFailureStep(s)) =>
            /\ ~ProgressEmitted(s)'
            /\ retries'[s] = retries[s]
            /\ Len(handles'[s]) = Len(handles[s])]_vars

\* A socket of session s has reported open.
HasOpened(s) == \E h \in 1..Len(handles[s]) : handles[s][h].opened

\* C25 as stated: once a socket of the session has reported open, a close
\* event emits no 'retrying' status and leaves the retry counter alone, and no
\* step opens another socket for the session.
C25_NoRetryAfterOpen ==
    [][\A s \in Ids :
         HasOpened(s) =>
            /\ CloseStep(s)' => (~RetryingEmitted(s)' /\ retries'[s] = retries[s])
            /\ Len(handles'[s]) = Len(handles[s])]_vars

\* C26 as stated: once cleanup of a session has begun, neither its TTL timer
\* nor its idle timer is armed (so neither fires), whatever event or
\* pairing-code result is handled afterwards.
C26_NoTimerAfterCleanup ==
    \A s \in Ids : cleanupRuns[s] > 0 => (~ttlArmed[s] /\ ~idleArmed[s])

\* The session_error events the last step emitted for s.
ErrorsEmitted(s) == SelectSeq(Emitted(s), LAMBDA e : e.ev = "session_error")

\* C27: a close event whose reason is logged-out starts no retry, whatever the
\* retry counter: it emits one error event, the logged-out message, and no
\* 'retrying' status, starts cleanup, leaves the retry counter as it was and
\* puts no socket teardown of a retry under way.
C27_LoggedOutIsTerminal ==
    [][\A s \in Ids :
         (CloseStep(s)' /\ step'.arg = "loggedOut") =>
            /\ ErrorsEmitted(s)'
                 = <<Err("Logged out by WhatsApp. Start pairing again.")>>
            /\ ~RetryingEmitted(s)'
            /\ retries'[s] = retries[s]
            /\ cleanupRuns'[s] = cleanupRuns[s] + 1
            /\ Count(s, {"h_endSock"})' = Count(s, {"h_endSock"})
            /\ Count(s, {"cleanup"})' = Count(s, {"cleanup"}) + 1]_vars

\* C27's case: a logged-out close was handled with retries remaining, after a
\* transient close had been retried.
C27_LoggedOutWithRetriesLeft ==
    \E s \in Ids :
        /\ CloseStep(s)
        /\ step.arg = "loggedOut"
        /\ retries[s] = 1
        /\ cleanupRuns[s] = 1

\* The last step handled a pairing-code failure of s whose status code is
\* retried, with retries remaining before it.
RetryableCodeFailure(s) ==
    /\ step.act = "codeFailed"
    /\ s \in step.sids
    /\ step.arg \in TransientReasons \cup {"undefined"}
\* What the catch block does at once: the counter, the 'retrying' status, the
\* session's socket ended, the wait put under way; no error, no cleanup.
CodeRetryStarted(s) ==
    /\ retries'[s] = retries[s] + 1
    /\ Emitted(s)' = <<Retrying(retries[s] + 1)>>
    /\ Live(s)' = Live(s) \ {sock[s]}
    /\ Count(s, {"rc_endSock"})' = Count(s, {"rc_endSock"}) + 1
    /\ cleanupRuns'[s] = cleanupRuns[s]
    /\ Count(s, {"cleanup"})' = Count(s, {"cleanup"})
    /\ (s \in registry) = (s \in registry')
\* The backoff of a pairing-code retry has elapsed in this step.
CodeBackoffElapsed(s) == Count(s, {"rc_backoff"})' < Count(s, {"rc_backoff"})
StartPairingCalled(s) ==
    Count(s, {"sp_ensureDir"})' = Count(s, {"sp_ensureDir"}) + 1

\* C28 as stated: a pairing-code failure with a retryable reason and retries
\* remaining increments the counter, emits 'retrying', ends the socket and,
\* the backoff over, starts a new connection attempt; no error, no cleanup.
C28_CodeFailureRetried ==
    [][\A s \in Ids :
         /\ (RetryableCodeFailure(s)' /\ retries[s] < MAX_RETRIES)
               => CodeRetryStarted(s)
         /\ CodeBackoffElapsed(s) => StartPairingCalled(s)]_vars

\* C28, amended: the same, the new attempt being started only if the session
\* is still registered when the backoff is over; if not, nothing is started.
C28_CodeFailureRetriedWhileRegistered ==
    [][\A s \in Ids :
         /\ (RetryableCodeFailure(s)' /\ retries[s] < MAX_RETRIES)
               => CodeRetryStarted(s)
         /\ CodeBackoffElapsed(s) =>
               IF s \in registry THEN StartPairingCalled(s)
               ELSE /\ Count(s, {"sp_ensureDir"})' = Count(s, {"sp_ensureDir"})
                    /\ handles'[s] = handles[s]]_vars

\* C28's case: the new attempt that followed a retried pairing-code failure
\* has opened its socket, with one retry counted.
C28_RestartedAfterCodeFailure ==
    \E s \in Ids :
        /\ step.act = "makeSocket"
        /\ s \in step.sids
        /\ step.arg = "code"
        /\ fails[s].codes = 1
        /\ retries[s] = 1
        /\ cleanupRuns[s] = 0

\* C29 as stated: the wait before retry number n, n being the retry counter
\* as the increment of that retry left it, is min(RETRY_DELAY_MAX_MS,
\* RETRY_DELAY_MS * n), in the close path and in the pairing-code path.
C29_WaitIsLinearWithCap ==
    \A t \in BagToSet(tasks) :
        t.pc \in {"h_backoff", "rc_backoff"} =>
            /\ t.n \in 1..MAX_RETRIES
            /\ t.ms = IF RETRY_DELAY_MS * t.n < RETRY_DELAY_MAX_MS
                      THEN RETRY_DELAY_MS * t.n ELSE RETRY_DELAY_MAX_MS

\* The positions at which a connection.update handler call is suspended.
HandlerPcs ==
    {"h_qr", "h_openSettle", "h_readFile", "h_sendToken", "h_confirm",
     "h_grace", "h_endSock", "h_backoff"}
HandlingPending(s) == Count(s, HandlerPcs) > 0
UpdateHandled(s) == step.act \in {"update", "close"} /\ s \in step.sids

\* C30: within one session a connection update is handled only after the
\* handling of the earlier ones is complete: no update of session s takes
\* effect while a handler call of s is suspended at one of its asynchronous
\* steps (QR rendering, post-open settle and export, retry backoff).
C30_UpdatesHandledInOrder ==
    [][\A s \in Ids : HandlingPending(s) => ~UpdateHandled(s)']_vars

\* A connection.update handler call of session s ran in the last step.
UpdateFrom(s) == step.act \in {"stale", "update", "close"} /\ s \in step.sids

\* C39: a connection update delivered by a socket that is not the session's
\* current one changes nothing: no event is emitted, no timer is set or
\* cleared, the retry counter stays, and no continuation (retry, cleanup,
\* export, rendering) is started.
C39_StaleUpdateIgnored ==
    [][\A s \in Ids :
          (UpdateFrom(s)' /\ sock[s] # step'.h)
              => /\ step'.evs = <<>>
                 /\ idleArmed'[s] = idleArmed[s]
                 /\ ttlArmed'[s] = ttlArmed[s]
                 /\ retries'[s] = retries[s]
                 /\ cleanupRuns'[s] = cleanupRuns[s]
                 /\ handles'[s] = handles[s]
                 /\ tasks' = tasks]_vars

\* An update of a socket replaced by a retry arrived while the new socket was
\* the current one.
C39_OldSocketSpokeAfterRetry ==
    \E s \in Ids :
        /\ UpdateFrom(s)
        /\ sock[s] # NoSock
        /\ step.h # sock[s]
        /\ retries[s] > 0

OpenHandled(s) == step.act = "update" /\ step.arg = "open" /\ s \in step.sids
CredsMissingHandled(s) ==
    step.act = "openSettle" /\ step.arg = "nocreds" /\ s \in step.sids
\* The continuations that carry a retry, a new attempt or the export.
RetryOrExportPcs ==
    {"h_endSock", "h_backoff", "rc_endSock", "rc_backoff", "sp_ensureDir",
     "sp_authState", "h_readFile", "h_sendToken", "h_confirm", "h_grace"}

\* C38: an open event sets the retry counter to 0 and emits the status
\* 'connected'.  When creds.json is absent after the settle delay the session
\* emits one error event and starts cleanup; that failure changes no retry
\* counter, starts no retry, no new attempt and no export step, and sends no
\* message.
C38_OpenResetsAndMissingCredsEnds ==
    [][\A s \in Ids :
          /\ OpenHandled(s)' =>
                /\ retries'[s] = 0
                /\ EmittedEv(s, Status("connected"))'
          /\ CredsMissingHandled(s)' =>
                /\ step'.evs = <<Err("creds.json not found after connect")>>
                /\ step'.out = <<>>
                /\ cleanupRuns'[s] = cleanupRuns[s] + 1
                /\ Count(s, {"cleanup"})' = Count(s, {"cleanup"}) + 1
                /\ retries'[s] = retries[s]
                /\ Count(s, RetryOrExportPcs)' <= Count(s, RetryOrExportPcs)
                /\ Len(handles'[s]) = Len(handles[s])]_vars

\* The credentials were found missing after the open of a socket that a retry
\* had started.
C38_CredsMissingOnRetriedSocket ==
    \E s \in Ids : CredsMissingHandled(s) /\ step.h >= 2 /\ retries[s] = 0

\* The sends of the export on socket h of session s that have not settled.
PendingSends(s, h) ==
    BagCardinality([t \in {u \in TasksOf(s) :
                              u.h = h /\ u.pc \in {"h_sendToken", "h_confirm"}}
                    |-> tasks[t]])
SendStarted(s, h) ==
    /\ s \in step.sids
    /\ step.h = h
    /\ step.act \in {"readFile", "sendToken"}
    /\ step.out # <<>>
ExportedEmitted(s) == EmittedEv(s, Ev("exported", <<ExportFormat>>))

\* C35: the export of an open socket sends its messages one at a time and in
\* order.  The token is sent when no send of that export is pending; the
\* confirmation is sent by the step in which the token's send resolved, on a
\* socket that could deliver it; after a send has started exactly one send is
\* pending; 'exported' is emitted only by the step in which the
\* confirmation's send resolved on a socket that could deliver it, with no
\* send left pending.
C35_ExportSendsInOrder ==
    [][\A s \in Ids, h \in 1..MaxHandles :
          /\ SendStarted(s, h)' =>
                /\ Len(step'.out) = 1
                /\ PendingSends(s, h)' = 1
                /\ IF step'.act = "readFile"
                   THEN /\ step'.out[1].body = "token"
                        /\ PendingSends(s, h) = 0
                   ELSE /\ step'.out[1].body = "confirm"
                        /\ Count(s, {"h_sendToken"}) > Count(s, {"h_sendToken"})'
                        /\ PendingSends(s, h) = 1
                        /\ CanDeliver(s, h)
          /\ (ExportedEmitted(s)' /\ step'.h = h) =>
                /\ step'.act = "confirm"
                /\ step'.out = <<>>
                /\ Count(s, {"h_confirm"}) > Count(s, {"h_confirm"})'
                /\ CanDeliver(s, h)
                /\ PendingSends(s, h)' = 0]_vars

\* 'exported' was emitted by the export of a socket that a retry had started.
C35_ExportedOnRetriedSocket ==
    \E s \in Ids : ExportedEmitted(s) /\ step.act = "confirm" /\ step.h >= 2

\* The account number of a user id: what precedes its first ':' or '@',
\* without the blanks around it.
FirstOf(str, C) ==
    IF \E i \in 1..Len(str) : str[i] \in C
    THEN CHOOSE i \in 1..Len(str) :
             str[i] \in C /\ \A j \in 1..(i - 1) : str[j] \notin C
    ELSE Len(str) + 1
IdentityNumber(uid) == Trim(SubSeq(uid, 1, FirstOf(uid, {":", "@"}) - 1))
ExportRead(s) == step.act = "readFile" /\ s \in step.sids
MessageSent(s) ==
    s \in step.sids /\ step.act \in {"readFile", "sendToken"} /\ step.out # <<>>

\* C37: every message of an export goes to the self JID of the identity the
\* socket reports (its account number followed by @s.whatsapp.net): the token
\* to the JID of the user id read after the credentials, the confirmation to
\* the same JID.  When the user id yields no account number nothing is sent,
\* no send is started and the export error is emitted.
C37_ExportAddressedToSelf ==
    [][\A s \in Ids :
          /\ ExportRead(s)' =>
                IF IdentityNumber(step'.req[1]) = <<>>
                THEN /\ step'.out = <<>>
                     /\ step'.evs = <<ExportFailed>>
                     /\ Count(s, {"h_sendToken", "h_confirm"})'
                            = Count(s, {"h_sendToken", "h_confirm"})
                ELSE step'.out # <<>> =>
                        /\ step'.out[1].to
                               = IdentityNumber(step'.req[1]) \o JidSuffix
                        /\ \A t \in BagToSet(tasks') :
                              (t.sid = s /\ t.h = step'.h /\ t.pc = "h_sendToken")
                                  => t.jid = step'.out[1].to
          /\ (MessageSent(s)' /\ step'.act = "sendToken") =>
                /\ step'.out[1].to # NoJid
                /\ \E t \in BagToSet(tasks) :
                      /\ t.sid = s /\ t.h = step'.h /\ t.pc = "h_sendToken"
                      /\ t.jid = step'.out[1].to]_vars

\* The confirmation of a phone-number session went to the JID of the account
\* that paired, its device suffix dropped, which is not the JID of the phone
\* the create request gave.
C37_ConfirmationToPairedAccount ==
    \E s \in Ids :
        /\ MessageSent(s)
        /\ step.act = "sendToken"
        /\ method[s] = "code"
        /\ step.out[1].to = <<"7", "7">> \o JidSuffix
        /\ step.out[1].to # phone[s] \o JidSuffix

(* ------------------- the lifecycle with its awaits settling ------------ *)
\* The suspension points of an open event's handler from the export on, and
\* from the settle delay on.
ExportPcs == {"h_readFile", "h_sendToken", "h_confirm", "h_grace"}
OpenPcs == ExportPcs \cup {"h_openSettle"}
TaskPcs ==
    {"sp_ensureDir", "sp_authState", "sp_settle", "sp_reqCode", "rc_endSock",
     "rc_backoff", "h_endSock", "h_backoff", "h_qr", "cleanup"} \cup OpenPcs

\* Sockets per session in SpecLive.
LiveSockets == 2

\* cleanupSession can be called MaxCleanups times per session in the model.
\* Every suspended open handler will call it once; another caller is let in
\* only while the bound leaves room for those calls.
Room(s) == cleanupRuns[s] + Count(s, OpenPcs) < MaxCleanups

\* The continuation t resumes: its await settles, one way or the other.
Resume(t) ==
    \/ EnsureDirDone(t)
    \/ Room(t.sid) /\ StartPairingFailed(t)
    \/ Len(handles[t.sid]) < LiveSockets /\ MakeSocket(t)
    \/ SettleDone(t)
    \/ \E raw \in RawCodes : CodeReceived(t, raw)
    \/ \E code \in CodeReasons : CodeFailed(t, code)
    \/ EndSockDone(t)
    \/ BackoffDone(t)
    \/ CleanupDone(t)
    \/ QrRendered(t)
    \/ QrRenderFailed(t)
    \/ \E c \in BOOLEAN : OpenSettleDone(t, c)
    \/ \E ok \in BOOLEAN, uid \in UserIds : ReadFileDone(t, ok, uid)
    \/ \E ok \in BOOLEAN : SendTokenDone(t, ok)
    \/ \E ok \in BOOLEAN : ConfirmDone(t, ok)
    \/ GraceDone(t)
ResumeAt(s, pc) ==
    \E t \in BagToSet(tasks) : t.sid = s /\ t.pc = pc /\ Resume(t)

\* What the clients, the timers, the sweep and the library do.
NextOutside ==
    \/ \E key \in ApiKeys, m \in Methods, p \in PhoneInputs : Create(key, m, p)
    \/ \E s \in Ids : Room(s) /\ TtlFire(s)
    \/ \E s \in Ids : Room(s) /\ IdleFire(s)
    \/ \E S \in SUBSET Ids : (\A s \in S : Room(s)) /\ SweepExpired(S)
    \/ \E s \in Ids, h \in 1..MaxHandles : UpdateStale(s, h)
    \/ \E s \in Ids, h \in 1..MaxHandles : UpdateConnecting(s, h)
    \/ \E s \in Ids, h \in 1..MaxHandles, q \in 1..MaxQr : UpdateQr(s, h, q)
    \/ \E s \in Ids, h \in 1..MaxHandles : Room(s) /\ UpdateOpen(s, h)
    \/ \E s \in Ids, h \in 1..MaxHandles, r \in Reasons :
           Room(s) /\ UpdateClose(s, h, r)

NextLive == NextOutside \/ \E t \in BagToSet(tasks) : Resume(t)

\* Every await settles and an armed absolute-TTL timer fires; the library's
\* events and the clients' requests may come or not.  The timer's step is
\* disabled while the session has MaxTasks continuations suspended, which the
\* program's timer is not: its fairness is strong.
Settling == \A s \in Ids, pc \in TaskPcs : WF_vars(ResumeAt(s, pc))
TimersFire == \A s \in Ids : SF_vars(Room(s) /\ TtlFire(s))
SpecLive == InitPairing /\ [][NextLive]_vars /\ Settling /\ TimersFire

ExportPending(s) == Count(s, ExportPcs) > 0
ExportStepFailed(s) ==
    /\ s \in step.sids
    /\ step.act \in {"readFile", "sendToken", "confirm"}
    /\ step.arg = "failed"

\* C36: an export that has begun (the credentials were there after the open)
\* ends, and it ends in the cleanup of the finally block: the suspended export
\* handlers of a session become fewer only by a step that emits nothing and
\* starts cleanup.  A failing step of the export emits the export error alone
\* and goes to the finally block; 'exported' is emitted alone, by the step in
\* which the confirmation was sent successfully, which goes to the finally
\* block too: an export emits one of the two, never both.
C36_ExportEndsInCleanup ==
    /\ [][\A s \in Ids :
             /\ Count(s, ExportPcs)' < Count(s, ExportPcs) =>
                   /\ step'.evs = <<>>
                   /\ Count(s, {"h_grace"})' = Count(s, {"h_grace"}) - 1
                   /\ cleanupRuns'[s] = cleanupRuns[s] + 1
                   /\ Count(s, {"cleanup"})' = Count(s, {"cleanup"}) + 1
             /\ ExportStepFailed(s)' =>
                   /\ step'.evs = <<ExportFailed>>
                   /\ step'.out = <<>>
                   /\ Count(s, {"h_grace"})' = Count(s, {"h_grace"}) + 1
             /\ ExportedEmitted(s)' =>
                   /\ step'.evs = <<Ev("exported", <<ExportFormat>>)>>
                   /\ step'.act = "confirm"
                   /\ step'.arg = "ok"
                   /\ Count(s, {"h_grace"})' = Count(s, {"h_grace"}) + 1]_vars
    /\ \A s \in Ids : ExportPending(s) ~> ~ExportPending(s)

\* The send of the token failed on a socket that had reported close, with a
\* cleanup of the session already begun.
C36_SendFailedAfterClose ==
    \E s \in Ids :
        /\ ExportStepFailed(s)
        /\ step.act = "sendToken"
        /\ handles[s][step.h].closed
        /\ cleanupRuns[s] > 0

\* C40: every session a create request registered is removed from the
\* registry in the end, whatever the library emits or withholds, given that
\* awaits settle and the armed TTL timer fires; a removed session never is in
\* the registry again.
C40_EverySessionRemoved ==
    /\ \A s \in Ids : (s \in registry) ~> (s \notin registry)
    /\ [][\A s \in Ids :
             (Created(s) /\ s \notin registry) => s \notin registry']_vars

\* A session was removed after its TTL had passed, by its first cleanup, with
\* no socket ever made: the library emitted nothing for it.
C40_RemovedWithoutAnyEvent ==
    \E s \in Ids :
        /\ Created(s)
        /\ s \notin registry
        /\ aged[s]
        /\ cleanupRuns[s] = 1
        /\ handles[s] = <<>>

(* --------------------------- two sessions ------------------------------ *)
\* Two sessions side by side: the first pairs by phone number, the second by
\* QR; one socket each; the create requests, the awaits of startPairing, the
\* timers, the sweep, cleanupSession and the library's connecting, qr and
\* close events with one reason of each kind.
PeerPhone == CHOOSE p \in PhoneInputs : validatePhone(p).ok
PeerSockets == 1
PeerReasons == {"loggedOut", "restartRequired", "forbidden"}
NextPeers ==
    \/ nextId <= MaxIds
         /\ Register("none", IF nextId = 1 THEN "code" ELSE "qr", PeerPhone)
    \/ \E t \in BagToSet(tasks) : EnsureDirDone(t)
    \/ \E t \in BagToSet(tasks) : StartPairingFailed(t)
    \/ \E t \in BagToSet(tasks) :
          Len(handles[t.sid]) < PeerSockets /\ MakeSocket(t)
    \/ \E t \in BagToSet(tasks) : SettleDone(t)
    \/ \E t \in BagToSet(tasks), raw \in RawCodes : CodeReceived(t, raw)
    \/ \E t \in BagToSet(tasks), code \in PeerReasons : CodeFailed(t, code)
    \/ \E t \in BagToSet(tasks) : EndSockDone(t)
    \/ \E t \in BagToSet(tasks) : BackoffDone(t)
    \/ \E t \in BagToSet(tasks) : CleanupDone(t)
    \/ \E s \in Ids : TtlFire(s)
    \/ \E s \in Ids : IdleFire(s)
    \/ \E S \in SUBSET Ids : SweepExpired(S)
    \/ \E s \in Ids, h \in 1..MaxHandles : UpdateStale(s, h)
    \/ \E s \in Ids, h \in 1..MaxHandles, q \in 1..MaxQr : UpdateQr(s, h, q)
    \/ \E t \in BagToSet(tasks) : QrRendered(t)
    \/ \E s \in Ids, h \in 1..MaxHandles : UpdateConnecting(s, h)
    \/ \E s \in Ids, h \in 1..MaxHandles, r \in PeerReasons :
          UpdateClose(s, h, r)
SpecPeers == InitPairing /\ [][NextPeers]_vars

\* What the program holds of session s: its fields, timers, directory,
\* sockets, registry entry and suspended continuations.
TaskBag(s) == [t \in TasksOf(s) |-> tasks[t]]
SessionState(s) ==
    <<method[s], phone[s], sock[s], retries[s], lastQr[s], lastCode[s],
      ttlArmed[s], idleArmed[s], dir[s], handles[s], cleanupRuns[s],
      s \in registry, TaskBag(s)>>
Touched(s) == SessionState(s)' # SessionState(s)

\* C31: sessions are independent.  A step that is not a sweep pass changes
\* the state of at most one session, the one it names when it emits or
\* answers; every other session keeps its fields, retry counter, timers,
\* cached code and QR, sockets, registry entry and continuations, and gets
\* no event.
C31_SessionsIndependent ==
    [][step'.act # "sweep" =>
          \A a, b \in Ids :
              (a # b /\ (Touched(a) \/ a \in step'.sids))
                  => ~Touched(b) /\ b \notin step'.sids]_vars

\* The QR session was closed for good and cleaned up while the phone-number
\* session was registered with a cached code, a retry counted and both of
\* its timers set.
C31_PeerClosedBesideRetryingSession ==
    /\ step.act = "close"
    /\ step.sids = {2}
    /\ cleanupRuns[2] = 1
    /\ registry = {1, 2}
    /\ lastCode[1] # <<>>
    /\ retries[1] > 0
    /\ ttlArmed[1]
    /\ idleArmed[1]

SweepPass == step.act = "sweep"

\* C34: a sweep pass handles every registered session whose age exceeds the
\* TTL at the pass (one error event on its emitter, both timers cleared, one
\* cleanup started, which removes it) and leaves every other session as it
\* was.
C34_SweepHandlesExactlyExpired ==
    [][SweepPass' =>
          /\ step'.evs = <<Err("Session expired.")>>
          /\ \A s \in Ids :
                IF s \in registry /\ aged'[s]
                THEN /\ s \in step'.sids
                     /\ ~ttlArmed'[s] /\ ~idleArmed'[s]
                     /\ cleanupRuns'[s] = cleanupRuns[s] + 1
                     /\ Count(s, {"cleanup"})' = Count(s, {"cleanup"}) + 1
                ELSE /\ s \notin step'.sids
                     /\ ~Touched(s)
                     /\ aged'[s] = aged[s]]_vars

\* A pass started the first cleanup of the older session, whose TTL timer had
\* therefore not fired, and left the younger one, not yet expired, with its
\* timers set.
C34_SweptBeforeItsTimerFired ==
    /\ SweepPass
    /\ step.sids = {1}
    /\ cleanupRuns[1] = 1
    /\ 2 \in registry
    /\ ~aged[2]
    /\ ttlArmed[2]
    /\ idleArmed[2]

(* ------------------ the event stream and the session ------------------- *)
\* What the lifecycle offers next: which of its callbacks, timers and
\* continuations can run.
LifecycleOffers ==
    <<ENABLED NextLifecycle,
      ENABLED (\E t \in BagToSet(tasks) : MakeSocket(t)),
      [s \in Ids |-> ENABLED TtlFire(s)],
      [s \in Ids |-> ENABLED IdleFire(s)],
      [s \in Ids |-> ENABLED (\E h \in 1..MaxHandles : UpdateOpen(s, h))],
      [s \in Ids |->
          ENABLED (\E h \in 1..MaxHandles, r \in Reasons : UpdateClose(s, h, r))],
      [s \in Ids |->
          ENABLED (\E h \in 1..MaxHandles, q \in 1..MaxQr : UpdateQr(s, h, q))],
      [s \in Ids |-> ENABLED (\E t \in TasksOf(s) : CleanupDone(t))]>>
StreamStep(s) ==
    step.act \in {"subscribe", "unsubscribe"} /\ s \in step.sids

\* C33: a subscriber's connect and disconnect change nothing in the session.
\* A subscribe or a disconnect leaves the session's fields, retry counter,
\* timers, sockets, registry entry and continuations as they were and emits
\* nothing; the disconnect detaches exactly that subscriber; what the
\* lifecycle can do next is the same before and after; and no lifecycle step
\* changes the subscribers.
C33_SubscribersLeaveSessionAlone ==
    [][/\ \A s \in Ids :
            StreamStep(s)' =>
                /\ \A r \in Ids : ~Touched(r)
                /\ step'.evs = <<>>
                /\ LifecycleOffers' = LifecycleOffers
                /\ step'.act = "unsubscribe" => subs'[s] = subs[s] - 1
                /\ subs'[s] > subs[s] => step'.resp = 200
       /\ step'.act \notin {"subscribe", "unsubscribe"} => UNCHANGED subs]_vars

\* C33's case: the second of two subscribers disconnected while the session
\* was waiting between two attempts, and the other stayed attached.
C33_DisconnectDuringRetry ==
    \E s \in registry :
        /\ step.act = "unsubscribe" /\ s \in step.sids
        /\ subs[s] = 1
        /\ retries[s] > 0
        /\ Count(s, {"h_backoff", "rc_backoff"}) > 0

(* --------------------- what a subscriber receives ---------------------- *)
\* A plausible slip: the 'exported' listener left out.
ListenedWithoutExported == {"status", "code", "qr", "session_error"}

\* s.emitter.on(...): the events a subscriber listens to.
Listened == {"status", "code", "qr", "exported", "session_error"}

\* onErr = (p) => send('error', p); the other listeners send under the
\* emitter's event name.
SseName(e) == IF e = "session_error" THEN "error" ELSE e

\* send(event, data): one frame on the subscriber's stream.
Frame(e) == [event |-> SseName(e.ev), data |-> e.val]

\* What one attached subscriber is sent when evs are emitted, in order.
RECURSIVE Forward(_)
Forward(evs) ==
    IF evs = <<>> THEN <<>>
    ELSE (IF Head(evs).ev \in Listened THEN <<Frame(Head(evs))>> ELSE <<>>)
             \o Forward(Tail(evs))

\* What the last step wrote to each subscriber attached to session s, beyond
\* the answer to its own request.
Written(s) == IF subs[s] > 0 THEN Forward(Emitted(s)) ELSE <<>>

\* The event stream with a second QR payload: the lifecycle of SpecStream with
\* no API key configured, where the library pushes two different QR strings.
ReplayQr == 2
NextReplay ==
    \/ NextOneSocket
    \/ \E s \in Ids, h \in 1..MaxHandles : UpdateQr(s, h, ReplayQr)
SpecReplay == InitPairing /\ [][NextReplay]_vars

\* The payload of the last e event among evs, or old when there is none.
RECURSIVE Latest(_, _, _)
Latest(evs, e, old) ==
    IF evs = <<>> THEN old
    ELSE IF evs[Len(evs)].ev = e THEN evs[Len(evs)].val
    ELSE Latest(SubSeq(evs, 1, Len(evs) - 1), e, old)
Subscribed(s) == SubscribeStep(s) /\ step.resp = 200
Of(out, e) == SelectSeq(out, LAMBDA x : x.ev = e)

\* C32: the cached code and QR are at every step the payloads the session
\* emitted last (none before the first); an accepted subscribe forwards
\* nothing but writes the cached code and the cached QR, each when present,
\* and then 'listening'; and every event a later step emits on the session is
\* written to each attached subscriber, one frame per event, with the same
\* payload and in the order of emission.
C32_ReplayThenForward ==
    [][\A s \in Ids :
         /\ lastCode'[s] = Latest(Emitted(s)', "code", lastCode[s])
         /\ lastQr'[s] = Latest(Emitted(s)', "qr", lastQr[s])
         /\ Subscribed(s)' =>
              /\ step'.evs = <<>>
              /\ Of(step'.out, "code")
                   = IF lastCode[s] = <<>> THEN <<>>
                     ELSE <<Ev("code", lastCode[s])>>
              /\ Of(step'.out, "qr")
                   = IF lastQr[s] = <<>> THEN <<>>
                     ELSE <<Ev("qr", lastQr[s])>>
              /\ step'.out[Len(step'.out)] = Status("listening")
              /\ Len(step'.out)
                   = Len(Of(step'.out, "code")) + Len(Of(step'.out, "qr")) + 1
         /\ subs'[s] > 0 =>
              /\ Len(Written(s)') = Len(Emitted(s)')
              /\ \A i \in 1..Len(Emitted(s)') :
                    /\ Written(s)'[i].data = Emitted(s)'[i].val
                    /\ Written(s)'[i].event = SseName(Emitted(s)'[i].ev)]_vars

\* C32's case: a subscriber was attached when the rendering of a QR payload
\* finished while the cache held the other payload: the new one was written
\* to the subscriber and is what a subscribe replays from now on.
C32_SecondQrForwarded ==
    \E s \in registry :
        /\ subs[s] > 0
        /\ step.act = "qr" /\ s \in step.sids
        /\ lastQr[s] = ToDataURL(ReplayQr)
        /\ Written(s) = <<Frame(Ev("qr", ToDataURL(ReplayQr)))>>
        /\ \E t \in TasksOf(s) : t.pc = "h_qr" /\ t.qr # ReplayQr

====
